---------------------------- MODULE Spec2Model ----------------------------
(***************************************************************************)
(* A model of the BCV overlap engine of lalapps BankEfficiency             *)
(* (src/lalapps/src/findchirp/BankEfficiency.c): the best-match tracker,   *)
(* the orthogonalizer, the overlap maximizer with its sector decision,     *)
(* the noise moment calculator and the simulation driver.                  *)
(*                                                                         *)
(* Arithmetic.  The C code computes in REAL4/REAL8.  The model computes    *)
(* the same expressions exactly, over the integers:                        *)
(*   - an SNR rho >= 0 is kept as 2*rho^2 = (a + b*sqrt(n))/h, the record  *)
(*     [a, b, n, h]; the sentinel -1 is kept as -2 (x -> 2*x*|x| is        *)
(*     strictly increasing, so every comparison of the code is kept);      *)
(*   - an angle is kept as the direction (x, y) of atan2(y, x), reduced    *)
(*     by the gcd, with separate values for -pi, for the two tolerance     *)
(*     limits -pi-1e-4 and pi+1e-4, and for NaN;                           *)
(*   - a division by zero gives Inf or NaN as in IEEE 754.                 *)
(* Rounding to REAL4 is not modelled: where a value lies exactly on the    *)
(* limit of a comparison (a sector limit, a pole of alphaFU) the exact     *)
(* value decides.                                                          *)
(***************************************************************************)
EXTENDS Integers, Sequences, FiniteSets, TLC

VARIABLES
    (* KeepHighestValues called on arbitrary records *)
    kpc, kBest, kThis, kOld,
    (* LALGetOrthogonalFilterBCV2 called on arbitrary filters *)
    opc, oFilter, oOrig, oCalls,
    (* LALWaveOverlapBCV: the moment coefficients of the cutoff bin, fp23,  *)
    (* overlapin->nBegin and ->nEnd, the correlations x1..x4, the loop      *)
    (* index i, the running maxima, the locals of the last sample,          *)
    (* *OverlapOutput, and what went to stderr                              *)
    wpc, wMom, wFp23, wBegin, wEnd, wX, wi, wRun, wLast, wOut, wErr,
    (* LALWaveOverlapBCV: its copy of otherIn, the buffer correlation and   *)
    (* the two filter buffers, which belong to main and are reused by       *)
    (* every call                                                           *)
    wOther, correlation, FilterBCV1, FilterBCV2,
    (* main: the program counter, the template bank and its size, the      *)
    (* moment vectors, the two loop counters, the best-match tracker, what  *)
    (* went to stdout, the results of the templates scanned in this trial   *)
    (* and whether list[] was read at an index the bank does not have       *)
    pc, sizeBank, list, moments, ntrials, currentTemplate,
    OverlapOutputBestTemplate, stdout, scanned, listFault,
    (* main: the options, the parameters of the trial's signal, the bank    *)
    (* as BECreateBank returned it, the correlations of the trial's signal  *)
    (* with the templates scanned so far, the number of entries of the SNR  *)
    (* histogram and the samples the last template added to it              *)
    otherIn, randIn, bank, trialX, histogramNoise, counted,
    (* main: the parameters as ParseParameters left them, the parameters    *)
    (* as UpdateParams leaves them, and what main wrote to stderr           *)
    argv, config, stderr,
    (* LALCreateMomentVector: the noise spectrum, kMin, the loop index k,   *)
    (* the sums m7, m5, m3 now and before the last bin, and the vectors     *)
    (* a11, a21, a22 with the indices written beyond their length           *)
    mpc, mPsd, mKMin, mk, mSum, mPrev, mA, mOOB,
    (* LALCreateVectorFreqPower: the arguments, the output vector, what it  *)
    (* held when the call began, the loop index i, and the vector the       *)
    (* first of two calls returned                                          *)
    vpc, vIn, vector, vOld, vi, vFirst,
    (* LALCreateFilters and the four correlations of one template: kMin,    *)
    (* the moment coefficients of the cutoff bin, what the two buffers held *)
    (* when the call began, the indices of the filter buffers and of the    *)
    (* power vectors the call has accessed, the correlations computed so    *)
    (* far with the filter each was given, and the number of calls          *)
    fpc, fKMin, fMom, fOld1, fOld2, fAccess, fPowerAccess, fLog, fCalls,
    (* the best-match merge as a reduction: the results of the bank's       *)
    (* templates, the first templates of the blocks, the scan index, the    *)
    (* tracker of the sequential scan, the local bests of the blocks and    *)
    (* the tracker the local bests are merged into                          *)
    rpc, rList, rCuts, ri, rBest, rLocal, rMerged,
    (* the cutoff bin of one template: the arguments, kMax of               *)
    (* LALInspiralOverlapBCV, k of LALWaveOverlapBCV, and the indices read  *)
    (* beyond the moment vectors                                            *)
    bpc, bIn, bKMax, bK, bOOB

keepVars == <<kpc, kBest, kThis, kOld>>
orthVars == <<opc, oFilter, oOrig, oCalls>>
waveVars ==
    <<wpc, wMom, wFp23, wBegin, wEnd, wX, wi, wRun, wLast, wOut, wErr,
      wOther, correlation, FilterBCV1, FilterBCV2>>
mainVars ==
    <<pc, sizeBank, list, moments, ntrials, currentTemplate,
      OverlapOutputBestTemplate, stdout, scanned, listFault,
      otherIn, randIn, bank, trialX, histogramNoise, counted>>
momentVars == <<mpc, mPsd, mKMin, mk, mSum, mPrev, mA, mOOB>>
configVars == <<argv, config, stderr>>
powerVars == <<vpc, vIn, vector, vOld, vi, vFirst>>
filterVars ==
    <<fpc, fKMin, fMom, fOld1, fOld2, fAccess, fPowerAccess, fLog, fCalls>>
reduceVars == <<rpc, rList, rCuts, ri, rBest, rLocal, rMerged>>
cutoffVars == <<bpc, bIn, bKMax, bK, bOOB>>
functionVars == <<filterVars, reduceVars, cutoffVars>>
vars ==
    <<keepVars, orthVars, waveVars, mainVars, momentVars, configVars,
      powerVars, functionVars>>

notKeep ==
    <<orthVars, waveVars, mainVars, momentVars, configVars, powerVars,
      functionVars>>
notOrth ==
    <<keepVars, waveVars, mainVars, momentVars, configVars, powerVars,
      functionVars>>
notWave ==
    <<keepVars, orthVars, mainVars, momentVars, configVars, powerVars,
      functionVars>>
notMoment ==
    <<keepVars, orthVars, waveVars, mainVars, configVars, powerVars,
      functionVars>>
notPower ==
    <<keepVars, orthVars, waveVars, mainVars, momentVars, configVars,
      functionVars>>
notFilter ==
    <<keepVars, orthVars, mainVars, momentVars, configVars, powerVars,
      reduceVars, cutoffVars>>
notReduce ==
    <<keepVars, orthVars, waveVars, mainVars, momentVars, configVars,
      powerVars, filterVars, cutoffVars>>
notCutoff ==
    <<keepVars, orthVars, waveVars, mainVars, momentVars, configVars,
      powerVars, filterVars, reduceVars>>

-----------------------------------------------------------------------------
(* Exact arithmetic helpers.                                               *)

Abs(x) == IF x < 0 THEN -x ELSE x

Sgn(x) == IF x < 0 THEN -1 ELSE IF x = 0 THEN 0 ELSE 1

RECURSIVE Gcd(_, _)
Gcd(a, b) == IF b = 0 THEN Abs(a) ELSE Gcd(b, a % Abs(b))

(* the sign of p + q*sqrt(n), n >= 0 *)
SignLin(p, q, n) ==
    IF q = 0 \/ n = 0 THEN Sgn(p)
    ELSE IF p = 0 THEN Sgn(q)
    ELSE IF Sgn(p) = Sgn(q) THEN Sgn(p)
    ELSE LET d == q * q * n - p * p
         IN  IF d = 0 THEN 0 ELSE IF d > 0 THEN Sgn(q) ELSE Sgn(p)

(* the sign of A + sqrt(n) - sqrt(m), n >= 0, m >= 0 *)
SignSqrtDiff(A, n, m) ==
    IF A >= 0 /\ n >= m THEN (IF A = 0 /\ n = m THEN 0 ELSE 1)
    ELSE IF A <= 0 /\ n <= m THEN -1
    ELSE IF A > 0 THEN SignLin(A * A + n - m, 2 * A, n)
    ELSE SignLin(n - m - A * A, 2 * A, m)

-----------------------------------------------------------------------------
(* SNR values: rho is kept as 2*rho*|rho| = (a + b*sqrt(n))/h.             *)

RhoInt(v) == [a |-> v, b |-> 0, n |-> 0, h |-> 1]

RhoZero == RhoInt(0)

(* -1., the "unset" value of BEInitOverlapOutputIn *)
RhoSentinel == RhoInt(-2)

(* the sign of x - y; a value with b = 1 has h = 1 *)
RhoCmp(x, y) ==
    LET A == x.a * y.h - y.a * x.h
    IN  IF x.b = 0 /\ y.b = 0 THEN Sgn(A)
        ELSE IF y.b = 0 THEN SignLin(A, y.h, x.n)
        ELSE IF x.b = 0 THEN SignLin(A, -x.h, y.n)
        ELSE SignSqrtDiff(A, x.n, y.n)

RhoGT(x, y) == RhoCmp(x, y) = 1

RhoLE(x, y) == RhoCmp(x, y) # 1

-----------------------------------------------------------------------------
(* Angles.                                                                 *)

Dir(x, y) ==
    IF x = 0 /\ y = 0 THEN [t |-> "dir", x |-> 1, y |-> 0]
    ELSE LET g == Gcd(x, y) IN [t |-> "dir", x |-> x \div g, y |-> y \div g]

AngZero == Dir(1, 0)
AngPi == Dir(-1, 0)
AngNegPi == [t |-> "negpi", x |-> -1, y |-> 0]
AngLo == [t |-> "lo", x |-> -1, y |-> 0]
AngHi == [t |-> "hi", x |-> -1, y |-> 0]
AngNaN == [t |-> "nan", x |-> 0, y |-> 0]

IsNaN(a) == a.t = "nan"

(* the place of an angle on [-pi-1e-4, pi+1e-4] *)
Half(a) ==
    IF a.t = "lo" THEN 0
    ELSE IF a.t = "negpi" THEN 1
    ELSE IF a.t = "hi" THEN 6
    ELSE IF a.y < 0 THEN 2
    ELSE IF a.y > 0 THEN 4
    ELSE IF a.x > 0 THEN 3 ELSE 5

(* a < b and a <= b on floats: false when either side is NaN *)
AngLT(a, b) ==
    /\ ~IsNaN(a) /\ ~IsNaN(b)
    /\ \/ Half(a) < Half(b)
       \/ /\ Half(a) = Half(b)
          /\ Half(a) \in {2, 4}
          /\ a.x * b.y - a.y * b.x > 0

AngLE(a, b) == ~IsNaN(a) /\ ~IsNaN(b) /\ ~AngLT(b, a)

-----------------------------------------------------------------------------
(* OverlapOutputIn and the best-match tracker.                             *)

PhaseSentinel == [t |-> "minus1", x |-> 0, y |-> 0]

AlphaSentinel == [k |-> "minus1"]
AlphaZero == [k |-> "zero"]

BEInitOverlapOutputIn ==
    [rhoMax |-> RhoSentinel, phase |-> PhaseSentinel, rhoBin |-> 0,
     templateNumber |-> 0, alpha |-> AlphaSentinel, layer |-> 0, freq |-> -1,
     rhoMaxU |-> RhoSentinel, phaseU |-> PhaseSentinel, rhoBinU |-> 0,
     templateNumberU |-> 0, alphaU |-> AlphaSentinel, layerU |-> 0,
     freqU |-> -1]

(* a bug: >= instead of > *)
KeepHighestValues_GE(this, best) ==
    LET b1 == IF RhoCmp(this.rhoMax, best.rhoMax) >= 0
              THEN [best EXCEPT !.rhoMax = this.rhoMax, !.phase = this.phase,
                                !.alpha = this.alpha, !.rhoBin = this.rhoBin,
                                !.freq = this.freq, !.layer = this.layer,
                                !.templateNumber = this.templateNumber]
              ELSE best
    IN  IF RhoCmp(this.rhoMaxU, b1.rhoMaxU) >= 0
        THEN [b1 EXCEPT !.rhoMaxU = this.rhoMaxU, !.phaseU = this.phaseU,
                        !.alphaU = this.alphaU, !.rhoBinU = this.rhoBinU,
                        !.freqU = this.freqU, !.layerU = this.layerU,
                        !.templateNumberU = this.templateNumberU]
        ELSE b1

(* a bug: alpha is not copied with the rest of the constrained sub-record *)
KeepHighestValues_NoAlpha(this, best) ==
    LET b1 == IF RhoGT(this.rhoMax, best.rhoMax)
              THEN [best EXCEPT !.rhoMax = this.rhoMax, !.phase = this.phase,
                                !.rhoBin = this.rhoBin,
                                !.freq = this.freq, !.layer = this.layer,
                                !.templateNumber = this.templateNumber]
              ELSE best
    IN  IF RhoGT(this.rhoMaxU, b1.rhoMaxU)
        THEN [b1 EXCEPT !.rhoMaxU = this.rhoMaxU, !.phaseU = this.phaseU,
                        !.alphaU = this.alphaU, !.rhoBinU = this.rhoBinU,
                        !.freqU = this.freqU, !.layerU = this.layerU,
                        !.templateNumberU = this.templateNumberU]
        ELSE b1

(* a bug: the unconstrained sub-record takes the template index of the    *)
(* constrained one                                                         *)
KeepHighestValues_OneIndex(this, best) ==
    LET b1 == IF RhoGT(this.rhoMax, best.rhoMax)
              THEN [best EXCEPT !.rhoMax = this.rhoMax, !.phase = this.phase,
                                !.alpha = this.alpha, !.rhoBin = this.rhoBin,
                                !.freq = this.freq, !.layer = this.layer,
                                !.templateNumber = this.templateNumber]
              ELSE best
    IN  IF RhoGT(this.rhoMaxU, b1.rhoMaxU)
        THEN [b1 EXCEPT !.rhoMaxU = this.rhoMaxU, !.phaseU = this.phaseU,
                        !.alphaU = this.alphaU, !.rhoBinU = this.rhoBinU,
                        !.freqU = this.freqU, !.layerU = this.layerU,
                        !.templateNumberU = this.templateNumber]
        ELSE b1

KeepHighestValues(this, best) ==
    LET b1 == IF RhoGT(this.rhoMax, best.rhoMax)
              THEN [best EXCEPT !.rhoMax = this.rhoMax, !.phase = this.phase,
                                !.alpha = this.alpha, !.rhoBin = this.rhoBin,
                                !.freq = this.freq, !.layer = this.layer,
                                !.templateNumber = this.templateNumber]
              ELSE best
    IN  IF RhoGT(this.rhoMaxU, b1.rhoMaxU)
        THEN [b1 EXCEPT !.rhoMaxU = this.rhoMaxU, !.phaseU = this.phaseU,
                        !.alphaU = this.alphaU, !.rhoBinU = this.rhoBinU,
                        !.freqU = this.freqU, !.layerU = this.layerU,
                        !.templateNumberU = this.templateNumberU]
        ELSE b1

(* the two sub-records of an OverlapOutputIn *)
Constrained(r) ==
    <<r.rhoMax, r.phase, r.alpha, r.rhoBin, r.freq, r.layer, r.templateNumber>>

Unconstrained(r) ==
    <<r.rhoMaxU, r.phaseU, r.alphaU, r.rhoBinU, r.freqU, r.layerU,
      r.templateNumberU>>

-----------------------------------------------------------------------------
(* LALGetOrthogonalFilterBCV2: the loop i = 1 .. nby2-1, in order.         *)

RECURSIVE OrthLoop(_, _)
OrthLoop(f, i) ==
    LET n == Len(f)
        nby2 == n \div 2
    IN  IF i >= nby2 THEN f
        ELSE OrthLoop([f EXCEPT ![i + 1] = -f[n - i + 1],
                                ![n - i + 1] = f[i + 1]], i + 1)

(* a bug: a plain swap, the sign is lost *)
RECURSIVE OrthLoopSwap(_, _)
OrthLoopSwap(f, i) ==
    LET n == Len(f)
        nby2 == n \div 2
    IN  IF i >= nby2 THEN f
        ELSE OrthLoopSwap([f EXCEPT ![i + 1] = f[n - i + 1],
                                    ![n - i + 1] = f[i + 1]], i + 1)

LALGetOrthogonalFilterBCV2_Swap(f) == OrthLoopSwap(f, 1)

(* data[i] of the code is f[i+1] *)
LALGetOrthogonalFilterBCV2(f) == OrthLoop(f, 1)


-----------------------------------------------------------------------------
(* LALWaveOverlapBCV: the maximization over the samples of the four        *)
(* correlations x1..x4.  A sample is [x1, x2, x3, x4, nz]; nz tells that   *)
(* V2 is the negative zero when V2 = 0 and V1 < 0 (atan2 gives -pi).       *)
(* The moment coefficients mom = [a11, a21, a22] of the cutoff bin are     *)
(* integers in a common unit; fp23 = pow(fCutoff, 2./3.) is an integer     *)
(* and fm23 = pow(fCutoff, -2./3.) = 1/fp23.                               *)

V0(s) == s.x1 * s.x1 + s.x2 * s.x2 + s.x3 * s.x3 + s.x4 * s.x4
V1(s) == s.x1 * s.x1 + s.x3 * s.x3 - s.x2 * s.x2 - s.x4 * s.x4
V2(s) == 2 * (s.x1 * s.x2 + s.x3 * s.x4)

(* thetav = atan2(V2, V1) *)
ThetaV(s) ==
    IF V2(s) = 0 /\ V1(s) < 0 /\ s.nz THEN AngNegPi ELSE Dir(V1(s), V2(s))

(* thetab = atan(-(a11*alphaMax)/(a22 + a21*alphaMax)), alphaMax = fm23 *)
ThetaB(mom, fp23) ==
    LET num == -mom.a11
        den == fp23 * mom.a22 + mom.a21
    IN  IF den = 0
        THEN (IF num = 0 THEN AngNaN ELSE Dir(0, Sgn(num)))
        ELSE Dir(Abs(den), Sgn(den) * num)

(* thetab >= 0 *)
ThetaBNonNeg(tb) == ~IsNaN(tb) /\ tb.y >= 0

(* 2*thetab, for thetab in [-pi/2, pi/2] *)
TwoThetaB(tb) ==
    IF IsNaN(tb) THEN AngNaN
    ELSE IF tb.x = 0 /\ tb.y < 0 THEN AngNegPi
    ELSE Dir(tb.x * tb.x - tb.y * tb.y, 2 * tb.x * tb.y)

(* thetab - LAL_PI and -LAL_PI + thetab, for thetab >= 0 *)
ThetaBMinusPi(tb) ==
    IF IsNaN(tb) THEN AngNaN
    ELSE IF tb.y = 0 THEN AngNegPi
    ELSE Dir(-tb.x, -tb.y)

(* LAL_PI + thetab, for thetab < 0 *)
PiPlusThetaB(tb) == IF IsNaN(tb) THEN AngNaN ELSE Dir(-tb.x, -tb.y)

(* cos(2*thetab) = cos2/hyp, sin(2*thetab) = sin2/hyp *)
Cos2(tb) == tb.x * tb.x - tb.y * tb.y
Sin2(tb) == 2 * tb.x * tb.y
Hyp(tb) == tb.x * tb.x + tb.y * tb.y

(* a bug: the second interval of the third sector (thetab >= 0) is lost *)
Sector_Gap(tb, tv) ==
    IF ThetaBNonNeg(tb)
    THEN IF AngLE(AngZero, tv) /\ AngLE(tv, TwoThetaB(tb)) THEN 1
         ELSE IF AngLE(ThetaBMinusPi(tb), tv) /\ AngLT(tv, AngZero) THEN 2
         ELSE IF AngLT(TwoThetaB(tb), tv) /\ AngLE(tv, AngHi) THEN 3
         ELSE 0
    ELSE IF AngLE(TwoThetaB(tb), tv) /\ AngLE(tv, AngZero) THEN 1
         ELSE IF AngLT(AngZero, tv) /\ AngLE(tv, PiPlusThetaB(tb)) THEN 2
         ELSE IF \/ (AngLE(AngLo, tv) /\ AngLT(tv, TwoThetaB(tb)))
                 \/ (AngLE(PiPlusThetaB(tb), tv) /\ AngLE(tv, AngHi))
              THEN 3
         ELSE 0

(* the sector decision: 1, 2 or 3, and 0 for "must not enter here" *)
Sector(tb, tv) ==
    IF ThetaBNonNeg(tb)
    THEN IF AngLE(AngZero, tv) /\ AngLE(tv, TwoThetaB(tb)) THEN 1
         ELSE IF AngLE(ThetaBMinusPi(tb), tv) /\ AngLT(tv, AngZero) THEN 2
         ELSE IF \/ (AngLT(TwoThetaB(tb), tv) /\ AngLE(tv, AngHi))
                 \/ (AngLE(AngLo, tv) /\ AngLT(tv, ThetaBMinusPi(tb)))
              THEN 3
         ELSE 0
    ELSE IF AngLE(TwoThetaB(tb), tv) /\ AngLE(tv, AngZero) THEN 1
         ELSE IF AngLT(AngZero, tv) /\ AngLE(tv, PiPlusThetaB(tb)) THEN 2
         ELSE IF \/ (AngLE(AngLo, tv) /\ AngLT(tv, TwoThetaB(tb)))
                 \/ (AngLE(PiPlusThetaB(tb), tv) /\ AngLE(tv, AngHi))
              THEN 3
         ELSE 0

(* an SNR value in lowest terms *)
RhoRat(a, h) == LET g == Gcd(a, h) IN [a |-> a \div g, b |-> 0, n |-> 0, h |-> h \div g]

(* rhoUnconstraint = sqrt((V0 + sqrt(V1*V1+V2*V2))/2.) *)
RhoUnconstraint(s) ==
    LET n == V1(s) * V1(s) + V2(s) * V2(s)
    IN  IF n = 0 THEN RhoInt(V0(s))
        ELSE [a |-> V0(s), b |-> 1, n |-> n, h |-> 1]

(* a bug: the division by 2 is lost *)
RhoSector2_NoHalf(s) == RhoInt(2 * (V0(s) + V1(s)))

(* sqrt((V0 + V1)/2.) *)
RhoSector2(s) == RhoInt(V0(s) + V1(s))

(* sqrt((V0+V1*cos(2*thetab)+V2*sin(2*thetab))/2.) *)
RhoSector3(s, tb) ==
    RhoRat(V0(s) * Hyp(tb) + V1(s) * Cos2(tb) + V2(s) * Sin2(tb), Hyp(tb))

(* rhoConstraint as set by the sector decision, sec in 1..3 *)
RhoConstraint(s, tb, sec) ==
    IF sec = 1 THEN RhoUnconstraint(s)
    ELSE IF sec = 2 THEN RhoSector2(s)
    ELSE RhoSector3(s, tb)

(* .5*thetav *)
Phase(tv) == [half |-> tv]

(* -(a22 * tan(phase)) / (a11 + a21 * tan(phase)): kept as the expression, *)
(* which for a11*a22 # 0 is one-to-one in the phase; 0 when tan(phase) = 0 *)
Alpha(mom, ph) ==
    IF ph = Phase(AngZero) /\ mom.a11 # 0 THEN AlphaZero
    ELSE [k |-> "moebius", a11 |-> mom.a11, a21 |-> mom.a21,
          a22 |-> mom.a22, ph |-> ph]

(* alphaFU <= 1, where                                                     *)
(*   alphaFU = -(a22 * tan(.5*thetav)) / (a11 + a21 * tan(.5*thetav)) * fp23 *)
(* With thetav = atan2(y, x), r = sqrt(x*x + y*y): tan(.5*thetav) =        *)
(* y/(r + x), so alphaFU = N/D, N = -a22*y*fp23, D = a11*(r + x) + a21*y.  *)
(* At thetav = +-pi the tangent is -+2.3e7 in REAL4 and alphaFU is taken   *)
(* at its limit -a22*fp23/a21.  x/0 is +-Inf or NaN: NaN <= 1 is false.    *)
AlphaFULessEq1(mom, fp23, tv) ==
    LET n == tv.x * tv.x + tv.y * tv.y
        p == mom.a11 * tv.x + mom.a21 * tv.y
        sD == SignLin(p, mom.a11, n)
        sDN == SignLin(p + mom.a22 * tv.y * fp23, mom.a11, n)
        sT == IF tv.t = "negpi" THEN 1 ELSE -1
    IN  IF tv.y # 0 \/ tv.x > 0
        THEN IF sD > 0 THEN sDN >= 0
             ELSE IF sD < 0 THEN sDN <= 0
             ELSE -mom.a22 * tv.y < 0
        ELSE IF mom.a21 > 0 THEN -mom.a22 * fp23 <= mom.a21
             ELSE IF mom.a21 < 0 THEN -mom.a22 * fp23 >= mom.a21
             ELSE IF mom.a11 = 0 THEN -mom.a22 * sT < 0
             ELSE -Sgn(mom.a22) * sT * Sgn(mom.a11) <= 0

(* a bug: the running maxima start at the sentinel -1 *)
WaveRunInit_Sentinel ==
    [rhoMaxConstraint |-> RhoSentinel, rhoBinConstraint |-> 0,
     phaseConstraint |-> Phase(AngZero), alphaConstraint |-> AlphaZero,
     rhoMaxUnconstraint |-> RhoSentinel, rhoBinUnconstraint |-> 0,
     phaseUnconstraint |-> Phase(AngZero), alphaUnconstraint |-> AlphaZero]

(* the running maxima, as initialised at lines 1799-1803 *)
WaveRunInit ==
    [rhoMaxConstraint |-> RhoZero, rhoBinConstraint |-> 0,
     phaseConstraint |-> Phase(AngZero), alphaConstraint |-> AlphaZero,
     rhoMaxUnconstraint |-> RhoZero, rhoBinUnconstraint |-> 0,
     phaseUnconstraint |-> Phase(AngZero), alphaUnconstraint |-> AlphaZero]

(* a bug: a later sample with the same SNR replaces the maximum *)
UpdateConstraint_GE(run, i, tv, rhoC, mom) ==
    IF RhoLE(run.rhoMaxConstraint, rhoC)
    THEN [run EXCEPT !.rhoMaxConstraint = rhoC,
                     !.rhoBinConstraint = i,
                     !.phaseConstraint = Phase(tv),
                     !.alphaConstraint = Alpha(mom, Phase(tv))]
    ELSE run

(* lines 2030-2038 *)
UpdateConstraint(run, i, tv, rhoC, mom) ==
    IF RhoGT(rhoC, run.rhoMaxConstraint)
    THEN [run EXCEPT !.rhoMaxConstraint = rhoC,
                     !.rhoBinConstraint = i,
                     !.phaseConstraint = Phase(tv),
                     !.alphaConstraint = Alpha(mom, Phase(tv))]
    ELSE run

(* a bug: alpha is derived before the phase of the new maximum is stored *)
UpdateUnconstraint_StaleAlpha(run, i, tv, rhoU, mom, fp23) ==
    IF RhoGT(rhoU, run.rhoMaxUnconstraint) /\ AlphaFULessEq1(mom, fp23, tv)
    THEN [run EXCEPT !.rhoMaxUnconstraint = rhoU,
                     !.rhoBinUnconstraint = i,
                     !.phaseUnconstraint = Phase(tv),
                     !.alphaUnconstraint = Alpha(mom, run.phaseUnconstraint)]
    ELSE run

(* lines 2040-2052 *)
UpdateUnconstraint(run, i, tv, rhoU, mom, fp23) ==
    IF RhoGT(rhoU, run.rhoMaxUnconstraint) /\ AlphaFULessEq1(mom, fp23, tv)
    THEN [run EXCEPT !.rhoMaxUnconstraint = rhoU,
                     !.rhoBinUnconstraint = i,
                     !.phaseUnconstraint = Phase(tv),
                     !.alphaUnconstraint = Alpha(mom, Phase(tv))]
    ELSE run

(* one pass of the loop body for sample s at index i, sector sec in 1..3 *)
WaveSample(run, i, s, mom, fp23, sec) ==
    LET tv == ThetaV(s)
        tb == ThetaB(mom, fp23)
        r1 == UpdateConstraint(run, i, tv, RhoConstraint(s, tb, sec), mom)
    IN  UpdateUnconstraint(r1, i, tv, RhoUnconstraint(s), mom, fp23)

(* lines 2055-2062: the running maxima are written to OverlapOutput *)
WaveOutput(out, run) ==
    [out EXCEPT !.rhoMax = run.rhoMaxConstraint,
                !.rhoBin = run.rhoBinConstraint,
                !.alpha = run.alphaConstraint,
                !.phase = run.phaseConstraint,
                !.rhoMaxU = run.rhoMaxUnconstraint,
                !.rhoBinU = run.rhoBinUnconstraint,
                !.alphaU = run.alphaUnconstraint,
                !.phaseU = run.phaseUnconstraint]

(* lines 2010-2027: what the loop stores in correlation->data[i]; old is   *)
(* the entry before.  -1 is kept as RhoSentinel.                           *)
CorrelationEntry(other, old, rhoC, rhoU, alphaFUOk) ==
    IF ~(other.printBestOverlap \/ other.printSNRHisto) THEN old
    ELSE IF other.alphaFConstraint = "ALPHAFConstraint" THEN rhoC
    ELSE IF alphaFUOk THEN rhoU
    ELSE RhoSentinel

(* lines 2133-2147: BestPhase = 0 and phi = startPhase = 0 (line 1857), so *)
(* cphase = cphi = 1, sphase = sphi = 0 and correlation->data[i] =         *)
(* x1.data[i]; the REAL4 x is kept as 2*x*|x|, like an SNR                 *)
FinalCorrelation(X) == [i \in 1..Len(X) |-> RhoInt(2 * X[i].x1 * Abs(X[i].x1))]

(* lines 354-363: the samples the histogram loop of main counts *)
HistogramCounted(corr) == {i \in 1..Len(corr) : corr[i] # RhoSentinel}

-----------------------------------------------------------------------------
(* LALCreateFilters.  The filters have SignalLength entries (lines         *)
(* 124-125); bin i is at f = i*df.  The phase psi0*f^(-5/3) + psi3*f^(-2/3) *)
(* of bin i is taken as i*pi/2, so that cos_phase and sin_phase are exact, *)
(* and f^(-7/6), f^(-1/2) are kept as positive integers.  KMin =           *)
(* floor(randIn->param.fLower/df) is the same for every call.              *)

SignalLength == 20

KMin == 2

CosPhase(i) == IF i % 4 = 0 THEN 1 ELSE IF i % 4 = 2 THEN -1 ELSE 0

SinPhase(i) == IF i % 4 = 1 THEN 1 ELSE IF i % 4 = 3 THEN -1 ELSE 0

(* element 0 of a power vector is 0 (line 1713) *)
Fm7_6(i) == IF i = 0 THEN 0 ELSE 2 * (SignalLength - i)

Fm1_2(i) == IF i = 0 THEN 0 ELSE 3 * (SignalLength - i)

(* lines 1768 and 1774-1775: amplitude at the bins below nby2 *)
Amplitude1(mom) ==
    [i \in 0..SignalLength \div 2 - 1 |-> mom.a11 * Fm7_6(i)]

Amplitude2(mom) ==
    [i \in 0..SignalLength \div 2 - 1 |->
        mom.a21 * Fm7_6(i) + mom.a22 * Fm1_2(i)]

(* a bug: the second loop starts one bin lower *)
CreateFilter_FromKMinMinus1(F, amp, kMin) ==
    LET n == Len(F)
        nby2 == n \div 2
    IN  [j \in 1..n |->
            LET i == j - 1
            IN  IF i < kMin - 1 THEN 0
                ELSE IF kMin - 1 <= i /\ i < nby2
                     THEN amp[i] * CosPhase(i)
                ELSE IF kMin - 1 <= n - i /\ n - i < nby2
                     THEN -amp[n - i] * SinPhase(n - i)
                ELSE F[j]]

(* lines 1753-1779 for one of the two filters, kMin >= 1: the first loop   *)
(* zeroes data[0..kMin-2], the second writes data[i] and data[n-i] for     *)
(* kMin <= i < nby2; every other entry keeps what the buffer held          *)
CreateFilter(F, amp, kMin) ==
    LET n == Len(F)
        nby2 == n \div 2
    IN  [j \in 1..n |->
            LET i == j - 1
            IN  IF i < kMin - 1 THEN 0
                ELSE IF kMin <= i /\ i < nby2 THEN amp[i] * CosPhase(i)
                ELSE IF kMin <= n - i /\ n - i < nby2
                     THEN -amp[n - i] * SinPhase(n - i)
                ELSE F[j]]

(* lines 129-133: LALCalloc *)
ZeroBuffer(n) == [j \in 1..n |-> 0]

(* InitOtherParamIn, lines 555-580: the options the overlap engine reads;  *)
(* the BANKEFFICIENCY_* defaults are taken as 0 and a non-BCV signal       *)
DefaultOtherIn ==
    [alphaFConstraint |-> "ALPHAFConstraint", extraFinalPrinting |-> FALSE,
     printBestOverlap |-> FALSE, printSNRHisto |-> FALSE,
     faithfulness |-> FALSE, signal |-> "EOB"]

-----------------------------------------------------------------------------
(* UpdateParams.  The parameters are those of the checks the model keeps:  *)
(* frequencies in Hz, masses and psi0 as integers; an fUpper of -1 and an  *)
(* approximant of "-1" are the values of "not given".                      *)
(* The BANKEFFICIENCY_* defaults are taken as values that pass the checks. *)

DefaultConfig ==
    [tSampling |-> 2048, fLower |-> 40, fUpper |-> -1, fCutoff |-> 1023,
     alpha |-> 0, gridType |-> "Square", mMin |-> 5, mMax |-> 20,
     psi0Min |-> 10, psi0Max |-> 250000, detector |-> "L1",
     noiseModel |-> "LIGOI", template |-> "BCV", signal |-> "EOB"]

(* lines 1013-1023: the values UpdateParams stores before its checks *)
UpdateFrequencies(c) ==
    LET upper == IF c.fUpper = -1 THEN c.tSampling \div 2 - 1 ELSE c.fUpper
    IN  [c EXCEPT !.fUpper = IF upper >= c.tSampling \div 2 - 1
                            THEN c.tSampling \div 2 - 1 ELSE upper,
                  !.fCutoff = IF c.fCutoff >= c.tSampling \div 2 - 1
                             THEN c.tSampling \div 2 - 1 ELSE c.fCutoff]

(* the checks of lines 1026-1329 that the model keeps, in the order of the *)
(* code, each with the option its message names                            *)
ConfigChecks(c) ==
    <<[failed |-> c.alpha < 0, msg |-> "--bank-alpha"],
      [failed |-> c.fUpper <= c.fLower \/ c.fUpper >= c.tSampling \div 2,
       msg |-> "--bank-ffinal"],
      [failed |-> c.gridType = "None", msg |-> "--bank-grid-type"],
      [failed |-> c.mMin >= c.mMax \/ c.mMin <= 0,
       msg |-> "--bank-mass-range"],
      [failed |-> c.psi0Min <= 0 \/ c.psi0Min > c.psi0Max,
       msg |-> "--bank-psi0-range"],
      [failed |-> c.detector = "None", msg |-> "--detector"],
      [failed |-> c.noiseModel = "None", msg |-> "--noise-model"],
      [failed |-> c.template = "-1", msg |-> "--template"],
      [failed |-> c.signal = "-1", msg |-> "--signal"]>>

FailedChecks(c) == {i \in DOMAIN ConfigChecks(c) : ConfigChecks(c)[i].failed}

(* BEPrintError is called at the first check that fails *)
FirstFailed(c) == CHOOSE i \in FailedChecks(c) : \A j \in FailedChecks(c) : i <= j

(* lines 1340-1347: the three lines BEPrintError writes before exit(0) *)
BEPrintError(chaine) ==
    <<"//--->  BankEfficiency code Error <---//", chaine,
      "//---> please use --help option to get help documentation <---//">>

-----------------------------------------------------------------------------
(* Bounds of the model.                                                    *)

MaxFilterLen == 6
MaxOrthCalls == 4
MaxSamples == 2

-----------------------------------------------------------------------------
(* The parts a specification does not use stay as they are.                *)

ZeroMom == [a11 |-> 0, a21 |-> 0, a22 |-> 0]

WaveLastInit ==
    [rhoConstraint |-> RhoZero, rhoUnconstraint |-> RhoZero,
     thetav |-> AngZero, sec |-> 0]

OrthIdle == opc = "idle" /\ oFilter = <<>> /\ oOrig = <<>> /\ oCalls = 0

KeepIdle ==
    /\ kpc = "idle" /\ kBest = BEInitOverlapOutputIn
    /\ kThis = BEInitOverlapOutputIn /\ kOld = BEInitOverlapOutputIn

WaveLocalsIdle ==
    /\ wpc = "idle" /\ wMom = ZeroMom /\ wFp23 = 1 /\ wX = <<>> /\ wi = 0
    /\ wBegin = 0 /\ wEnd = 0
    /\ wRun = WaveRunInit /\ wLast = WaveLastInit
    /\ wOut = BEInitOverlapOutputIn /\ wErr = <<>>
    /\ wOther = DefaultOtherIn

WaveIdle ==
    /\ WaveLocalsIdle
    /\ correlation = <<>> /\ FilterBCV1 = <<>> /\ FilterBCV2 = <<>>

MainIdle ==
    /\ pc = "idle" /\ sizeBank = 0 /\ list = <<>> /\ moments = <<>>
    /\ ntrials = 0 /\ currentTemplate = 0
    /\ OverlapOutputBestTemplate = BEInitOverlapOutputIn
    /\ stdout = <<>> /\ scanned = <<>> /\ listFault = FALSE
    /\ otherIn = DefaultOtherIn /\ randIn = [fFinal |-> 0] /\ bank = <<>>
    /\ trialX = <<>> /\ histogramNoise = 0 /\ counted = {}

(* LALCreateVectorFreqPower is not running *)
PowerIdle ==
    /\ vpc = "idle" /\ vIn = [n |-> 0, tSampling |-> 0, a |-> 0, b |-> 0]
    /\ vector = <<>> /\ vOld = <<>> /\ vi = 0 /\ vFirst = <<>>

(* LALCreateFilters and the correlations are not running *)
FilterIdle ==
    /\ fpc = "idle" /\ fKMin = 0 /\ fMom = ZeroMom /\ fOld1 = <<>>
    /\ fOld2 = <<>> /\ fAccess = {} /\ fPowerAccess = {} /\ fLog = <<>>
    /\ fCalls = 0

ReduceIdle ==
    /\ rpc = "idle" /\ rList = <<>> /\ rCuts = {} /\ ri = 0
    /\ rBest = BEInitOverlapOutputIn /\ rLocal = <<>>
    /\ rMerged = BEInitOverlapOutputIn

CutoffIdle ==
    /\ bpc = "idle"
    /\ bIn = [n |-> 0, tSampling |-> 0, fFinal |-> 0, signalfFinal |-> 0,
              signal |-> "-1"]
    /\ bKMax = 0 /\ bK = 0 /\ bOOB = {}

(* none of the functions checked on their own is running *)
FunctionsIdle == PowerIdle /\ FilterIdle /\ ReduceIdle /\ CutoffIdle

(* the parameters have passed UpdateParams *)
ParamsDone ==
    /\ argv = DefaultConfig /\ config = UpdateFrequencies(DefaultConfig)
    /\ stderr = <<>>

ConfigDone == ParamsDone /\ FunctionsIdle

(* m7 = m5 = m3 = 0, lines 1622-1624 *)
ZeroSums == [m7 |-> 0, m5 |-> 0, m3 |-> 0]

MomentIdle ==
    /\ mpc = "idle" /\ mPsd = <<>> /\ mKMin = 0 /\ mk = 0
    /\ mSum = ZeroSums /\ mPrev = ZeroSums /\ mA = <<>> /\ mOOB = {}

-----------------------------------------------------------------------------
(* KeepHighestValues on arbitrary records (specification SpecKeep).        *)

KeepRhos == {RhoSentinel, RhoZero, RhoInt(2), [a |-> 4, b |-> 1, n |-> 8, h |-> 1]}

KeepRec(r, ru, tg, tu) ==
    [rhoMax |-> r, phase |-> Dir(1, tg), rhoBin |-> tg,
     templateNumber |-> tg, layer |-> tg, freq |-> 8 + tg,
     alpha |-> IF tg = 0 THEN AlphaZero ELSE AlphaSentinel,
     rhoMaxU |-> ru, phaseU |-> Dir(1, tu), rhoBinU |-> tu,
     templateNumberU |-> tu, layerU |-> tu, freqU |-> 8 + tu,
     alphaU |-> IF tu = 0 THEN AlphaZero ELSE AlphaSentinel]

KeepRecs ==
    {KeepRec(r, ru, tg, tu) : r \in KeepRhos, ru \in KeepRhos,
                              tg \in {0, 1}, tu \in {0, 1}}

KeepInit ==
    /\ kpc = "call"
    /\ kBest \in KeepRecs
    /\ kThis \in KeepRecs
    /\ kOld = kBest
    /\ OrthIdle /\ WaveIdle /\ MainIdle /\ MomentIdle /\ ConfigDone

(* the call KeepHighestValues(kThis, &kBest) *)
KeepCall ==
    /\ kpc = "call"
    /\ kBest' = KeepHighestValues(kThis, kBest)
    /\ kOld' = kBest
    /\ kpc' = "ret"
    /\ UNCHANGED <<kThis, notKeep>>

(* the caller comes back with another candidate *)
KeepNext ==
    /\ kpc = "ret"
    /\ kThis' \in KeepRecs
    /\ kpc' = "call"
    /\ UNCHANGED <<kBest, kOld, notKeep>>

KeepNextStep == KeepCall \/ KeepNext

SpecKeep == KeepInit /\ [][KeepNextStep]_vars

(* C1: KeepHighestValues(C, B) replaces the constrained sub-record of B by *)
(* that of C if and only if C.rhoMax > B.rhoMax, and independently the     *)
(* unconstrained sub-record if and only if C.rhoMaxU > B.rhoMaxU; with an  *)
(* equal or lower SNR no field of that sub-record changes.                 *)
C1_KeepReplacesIffStrictlyHigher ==
    kpc = "ret" =>
        /\ Constrained(kBest) =
              IF RhoGT(kThis.rhoMax, kOld.rhoMax)
              THEN Constrained(kThis) ELSE Constrained(kOld)
        /\ Unconstrained(kBest) =
              IF RhoGT(kThis.rhoMaxU, kOld.rhoMaxU)
              THEN Unconstrained(kThis) ELSE Unconstrained(kOld)

(* a call that replaces the constrained sub-record and, on an SNR tie,     *)
(* keeps the unconstrained one although its other fields differ            *)
C1_Witness ==
    /\ kpc = "ret"
    /\ RhoGT(kThis.rhoMax, kOld.rhoMax)
    /\ kThis.alpha # kOld.alpha /\ kBest.alpha = kThis.alpha
    /\ RhoCmp(kThis.rhoMaxU, kOld.rhoMaxU) = 0
    /\ kThis.phaseU # kOld.phaseU /\ kBest.phaseU = kOld.phaseU

-----------------------------------------------------------------------------
(* LALGetOrthogonalFilterBCV2 on arbitrary filters (specification SpecOrth). *)

FilterValues == {-1, 0, 2}

Filters ==
    UNION {[1..n -> FilterValues] : n \in 0..MaxFilterLen}

OrthInit ==
    /\ opc = "run"
    /\ oFilter \in Filters
    /\ oOrig = oFilter
    /\ oCalls = 0
    /\ KeepIdle /\ WaveIdle /\ MainIdle /\ MomentIdle /\ ConfigDone

Orthogonalize ==
    /\ opc = "run"
    /\ oCalls < MaxOrthCalls
    /\ oFilter' = LALGetOrthogonalFilterBCV2(oFilter)
    /\ oCalls' = oCalls + 1
    /\ UNCHANGED <<opc, oOrig, notOrth>>

SpecOrth == OrthInit /\ [][Orthogonalize]_vars

(* data[i] is touched by the loop: 1 <= i < nby2 or 1 <= n-i < nby2 *)
OrthTouched(i, n) ==
    \/ (1 <= i /\ i < n \div 2)
    \/ (1 <= n - i /\ n - i < n \div 2)

(* C4 as stated: two applications reproduce every element of f exactly.    *)
C4_TwiceReproducesExactly ==
    oCalls = 2 => oFilter = oOrig

(* C4 as amended: two applications reproduce f up to sign; data[i] is      *)
(* negated at the indices the loop touches and unchanged elsewhere.        *)
C4_TwiceReproducesUpToSign ==
    oCalls = 2 =>
        /\ Len(oFilter) = Len(oOrig)
        /\ \A j \in 1..Len(oOrig) :
              oFilter[j] = IF OrthTouched(j - 1, Len(oOrig))
                           THEN -oOrig[j] ELSE oOrig[j]

C4_Witness ==
    /\ oCalls = 2
    /\ Len(oOrig) >= 4
    /\ oFilter # oOrig
    /\ oFilter[1] = oOrig[1] /\ oOrig[1] # 0

-----------------------------------------------------------------------------
(* LALWaveOverlapBCV on arbitrary correlations (specification SpecWave).   *)
(* nBegin = 0 and nEnd = 0 (lines 170-171): the loop runs over i = 0..n-1. *)
(* Of the n samples of x1..x4 and of correlation the model keeps the       *)
(* Len(wX) first ones.                                                     *)

Samples ==
    {[x1 |-> a, x2 |-> b, x3 |-> c, x4 |-> d, nz |-> z] :
        a \in {0, 1, 2}, b \in {-1, 0, 1}, c \in {0, 1}, d \in {0},
        z \in {FALSE}}
    \cup
    {[x1 |-> 0, x2 |-> b, x3 |-> 0, x4 |-> d, nz |-> z] :
        b \in {-1}, d \in {-1, 1}, z \in BOOLEAN}

SampleSeqs == UNION {[1..n -> Samples] : n \in 1..MaxSamples}

(* moment coefficients as LALCreateMomentVector leaves them: a11 > 0,      *)
(* a22 > 0, a21 < 0, or all zero at a bin it did not write                 *)
Moms ==
    {[a11 |-> 1, a21 |-> -2, a22 |-> 1], [a11 |-> 1, a21 |-> -1, a22 |-> 2],
     [a11 |-> 3, a21 |-> -2, a22 |-> 1], [a11 |-> 1, a21 |-> -1, a22 |-> 1],
     ZeroMom}

Fp23s == {1, 4}

WaveInit ==
    /\ wpc = "correlate"
    /\ wMom \in Moms
    /\ wFp23 \in Fp23s
    /\ wX \in SampleSeqs
    /\ wBegin = 0
    /\ wEnd = 0
    /\ wi = 0
    /\ wRun = WaveRunInit
    /\ wLast = WaveLastInit
    /\ wOut = [BEInitOverlapOutputIn EXCEPT !.rhoMax = RhoSentinel]
    /\ wErr = <<>>
    /\ wOther = DefaultOtherIn
    /\ correlation = [i \in 1..Len(wX) |-> RhoZero]
    /\ FilterBCV1 =
           CreateFilter(ZeroBuffer(SignalLength), Amplitude1(wMom), KMin)
    /\ FilterBCV2 =
           CreateFilter(ZeroBuffer(SignalLength), Amplitude2(wMom), KMin)
    /\ KeepIdle /\ OrthIdle /\ MainIdle /\ MomentIdle /\ ConfigDone

(* a bug: the loop starts at sample 0 *)
WaveCorrelate_FromZero ==
    /\ wpc = "correlate"
    /\ FilterBCV1' = LALGetOrthogonalFilterBCV2(FilterBCV1)
    /\ FilterBCV2' = LALGetOrthogonalFilterBCV2(FilterBCV2)
    /\ wi' = 0
    /\ wpc' = "loop"
    /\ UNCHANGED <<wMom, wFp23, wBegin, wEnd, wX, wRun, wLast, wOut, wErr,
                   wOther, correlation, notWave>>

(* lines 1870-1885: x1 and x2 are the correlations of the signal with the  *)
(* filters as LALCreateFilters left them, x3 and x4 those with the         *)
(* orthogonalized filters; wX holds the four results.  Lines 1889 and      *)
(* 1944: the loop starts at i = nBegin                                     *)
WaveCorrelate ==
    /\ wpc = "correlate"
    /\ FilterBCV1' = LALGetOrthogonalFilterBCV2(FilterBCV1)
    /\ FilterBCV2' = LALGetOrthogonalFilterBCV2(FilterBCV2)
    /\ wi' = wBegin
    /\ wpc' = "loop"
    /\ UNCHANGED <<wMom, wFp23, wBegin, wEnd, wX, wRun, wLast, wOut, wErr,
                   wOther, correlation, notWave>>

(* the sector of the sample the loop is at *)
WaveSector == Sector(ThetaB(wMom, wFp23), ThetaV(wX[wi + 1]))

(* lines 1944-2053, a sample that falls in one of the three sectors *)
WaveStep ==
    /\ wpc = "loop"
    /\ wi < Len(wX) - wEnd
    /\ WaveSector # 0
    /\ wRun' = WaveSample(wRun, wi, wX[wi + 1], wMom, wFp23, WaveSector)
    /\ wLast' = [rhoConstraint |->
                    RhoConstraint(wX[wi + 1], ThetaB(wMom, wFp23), WaveSector),
                 rhoUnconstraint |-> RhoUnconstraint(wX[wi + 1]),
                 thetav |-> ThetaV(wX[wi + 1]),
                 sec |-> WaveSector]
    /\ correlation' =
           [correlation EXCEPT ![wi + 1] =
               CorrelationEntry(wOther, @,
                   RhoConstraint(wX[wi + 1], ThetaB(wMom, wFp23), WaveSector),
                   RhoUnconstraint(wX[wi + 1]),
                   AlphaFULessEq1(wMom, wFp23, ThetaV(wX[wi + 1])))]
    /\ wi' = wi + 1
    /\ UNCHANGED <<wpc, wMom, wFp23, wBegin, wEnd, wX, wOut, wErr, wOther, FilterBCV1,
                   FilterBCV2, notWave>>

(* a bug: the sample is skipped and the loop goes on *)
WaveMustNotEnter_Skip ==
    /\ wpc = "loop"
    /\ wi < Len(wX) - wEnd
    /\ WaveSector = 0
    /\ wi' = wi + 1
    /\ UNCHANGED <<wpc, wMom, wFp23, wBegin, wEnd, wX, wRun, wLast, wOut, wErr, wOther,
                   correlation, FilterBCV1, FilterBCV2, notWave>>

(* lines 1983-1987 and 2001-2006: fprintf(stderr, "must not enter here"),  *)
(* exit(0)                                                                 *)
WaveMustNotEnter ==
    /\ wpc = "loop"
    /\ wi < Len(wX) - wEnd
    /\ WaveSector = 0
    /\ wErr' = Append(wErr, "must not enter here")
    /\ wpc' = "exited"
    /\ wLast' = [wLast EXCEPT !.rhoUnconstraint = RhoUnconstraint(wX[wi + 1]),
                              !.thetav = ThetaV(wX[wi + 1]),
                              !.sec = 0]
    /\ UNCHANGED <<wMom, wFp23, wBegin, wEnd, wX, wi, wRun, wOut, wOther, correlation,
                   FilterBCV1, FilterBCV2, notWave>>

(* lines 2055-2062, after the last sample, and lines 2130-2196: with       *)
(* printBestOverlap and extraFinalPrinting the correlation buffer is       *)
(* overwritten and both filters are orthogonalized once more               *)
WaveReturn ==
    /\ wpc = "loop"
    /\ wi >= Len(wX) - wEnd
    /\ wOut' = WaveOutput(wOut, wRun)
    /\ wpc' = "done"
    /\ IF wOther.extraFinalPrinting /\ wOther.printBestOverlap
       THEN /\ correlation' = FinalCorrelation(wX)
            /\ FilterBCV1' = LALGetOrthogonalFilterBCV2(FilterBCV1)
            /\ FilterBCV2' = LALGetOrthogonalFilterBCV2(FilterBCV2)
       ELSE UNCHANGED <<correlation, FilterBCV1, FilterBCV2>>
    /\ UNCHANGED <<wMom, wFp23, wBegin, wEnd, wX, wi, wRun, wLast, wErr, wOther, notWave>>

WaveNext == WaveCorrelate \/ WaveStep \/ WaveMustNotEnter \/ WaveReturn

SpecWave == WaveInit /\ [][WaveNext]_vars

(* C5: for a finite thetab in (-pi/2, pi/2) and any thetav in [-pi, pi]    *)
(* the sector decision selects one of the three formulas; the "must not    *)
(* enter here" branch is never taken, for thetab >= 0 and for thetab < 0.  *)
C5_SectorsExhaustive ==
    (ThetaB(wMom, wFp23).t = "dir" /\ ThetaB(wMom, wFp23).x > 0) =>
        /\ wpc # "exited"
        /\ wpc = "loop" /\ wi < Len(wX) => WaveSector \in {1, 2, 3}

(* thetab > 0 and a sample below thetab - pi, handled by the third sector  *)
C5_Witness ==
    /\ ThetaB(wMom, wFp23).t = "dir" /\ ThetaB(wMom, wFp23).x > 0
    /\ ThetaB(wMom, wFp23).y > 0
    /\ wLast.sec = 3
    /\ AngLT(wLast.thetav, ThetaBMinusPi(ThetaB(wMom, wFp23)))

(* C7: at every sample the constrained SNR chosen by the sector decision   *)
(* is at most the unconstrained SNR of the same sample.                    *)
C7_ConstrainedAtMostUnconstrained ==
    wLast.sec \in {1, 2, 3} =>
        RhoLE(wLast.rhoConstraint, wLast.rhoUnconstraint)

(* a sample of the second sector with a constrained SNR strictly below     *)
(* the unconstrained one                                                   *)
C7_Witness ==
    /\ wLast.sec = 2
    /\ RhoGT(wLast.rhoConstraint, RhoZero)
    /\ RhoGT(wLast.rhoUnconstraint, wLast.rhoConstraint)

(* C8 as stated: in every result alphaU is the formula at phaseU with the  *)
(* moment coefficients of the cutoff bin, and phaseU is thetav/2 of the    *)
(* sample rhoBinU, at which rhoMaxU is attained; the same for the          *)
(* constrained branch.                                                     *)
C8_AlphaAndPhaseOfMaxSample ==
    wpc = "done" =>
        /\ wOut.alphaU = Alpha(wMom, wOut.phaseU)
        /\ wOut.phaseU = Phase(ThetaV(wX[wOut.rhoBinU + 1]))
        /\ RhoCmp(RhoUnconstraint(wX[wOut.rhoBinU + 1]), wOut.rhoMaxU) = 0
        /\ wOut.alpha = Alpha(wMom, wOut.phase)
        /\ wOut.phase = Phase(ThetaV(wX[wOut.rhoBin + 1]))

(* C8 as amended: alpha is always the formula at the stored phase; the     *)
(* stored phase is thetav/2 of the stored bin, where the maximum is        *)
(* attained, whenever a sample raised that maximum above 0; when none did, *)
(* the branch holds rhoMax = 0, bin 0, phase 0 and alpha 0.                *)
C8_AlphaAndPhaseWhenRaised ==
    wpc = "done" =>
        /\ wOut.alphaU = Alpha(wMom, wOut.phaseU)
        /\ wOut.alpha = Alpha(wMom, wOut.phase)
        /\ IF RhoGT(wOut.rhoMaxU, RhoZero)
           THEN /\ wOut.phaseU = Phase(ThetaV(wX[wOut.rhoBinU + 1]))
                /\ RhoCmp(RhoUnconstraint(wX[wOut.rhoBinU + 1]),
                          wOut.rhoMaxU) = 0
                /\ AlphaFULessEq1(wMom, wFp23, ThetaV(wX[wOut.rhoBinU + 1]))
           ELSE /\ wOut.rhoMaxU = RhoZero /\ wOut.rhoBinU = 0
                /\ wOut.phaseU = Phase(AngZero) /\ wOut.alphaU = AlphaZero
        /\ IF RhoGT(wOut.rhoMax, RhoZero)
           THEN /\ wOut.phase = Phase(ThetaV(wX[wOut.rhoBin + 1]))
                /\ RhoCmp(RhoConstraint(wX[wOut.rhoBin + 1],
                                        ThetaB(wMom, wFp23),
                                        Sector(ThetaB(wMom, wFp23),
                                               ThetaV(wX[wOut.rhoBin + 1]))),
                          wOut.rhoMax) = 0
           ELSE /\ wOut.rhoMax = RhoZero /\ wOut.rhoBin = 0
                /\ wOut.phase = Phase(AngZero) /\ wOut.alpha = AlphaZero

(* a result whose two maxima come from two different samples, the second   *)
(* one with a non-zero phase                                               *)
C8_Witness ==
    /\ wpc = "done"
    /\ RhoGT(wOut.rhoMaxU, RhoZero)
    /\ wOut.rhoBinU = 1 /\ wOut.rhoBin = 0
    /\ wOut.phaseU # Phase(AngZero)
    /\ wOut.alphaU # AlphaZero

(* no sample passes alphaFU <= 1 although every sample has a positive SNR  *)
C8_WitnessNoneRaised ==
    /\ wpc = "done"
    /\ wOut.rhoMaxU = RhoZero
    /\ RhoGT(wOut.rhoMax, RhoZero)

(* the constrained SNR of sample s by the table of sectors, with the exact *)
(* limits -pi and pi; "none" where the table has no entry                  *)
SectorTable(s, tb) ==
    LET tv == ThetaV(s)
    IN  IF tb.y >= 0
        THEN IF AngLE(AngZero, tv) /\ AngLE(tv, TwoThetaB(tb))
             THEN RhoUnconstraint(s)
             ELSE IF AngLE(ThetaBMinusPi(tb), tv) /\ AngLT(tv, AngZero)
             THEN RhoSector2(s)
             ELSE IF \/ (AngLT(TwoThetaB(tb), tv) /\ AngLE(tv, AngPi))
                     \/ (AngLE(AngNegPi, tv) /\ AngLT(tv, ThetaBMinusPi(tb)))
             THEN RhoSector3(s, tb)
             ELSE [a |-> "none"]
        ELSE IF AngLE(TwoThetaB(tb), tv) /\ AngLE(tv, AngZero)
             THEN RhoUnconstraint(s)
             ELSE IF AngLT(AngZero, tv) /\ AngLE(tv, PiPlusThetaB(tb))
             THEN RhoSector2(s)
             ELSE RhoSector3(s, tb)

(* C18: for a thetab that is a number, the constrained SNR of every sample *)
(* is the value the table of sectors gives for its thetav in [-pi, pi]     *)
(* (the earlier listed sector on a shared limit), and no sample takes the  *)
(* "must not enter here" exit.                                             *)
C18_SectorTableFollowed ==
    ~IsNaN(ThetaB(wMom, wFp23)) =>
        /\ wpc # "exited"
        /\ (wpc \in {"loop", "done"} /\ wi > 0) =>
               /\ wLast.thetav = ThetaV(wX[wi])
               /\ wLast.rhoConstraint =
                      SectorTable(wX[wi], ThetaB(wMom, wFp23))

(* thetab < 0 and a sample with thetav = pi + thetab, the limit the second *)
(* and the third sector share: the second sector is taken, and its value   *)
(* is below the unconstrained SNR                                          *)
C18_Witness ==
    /\ wpc \in {"loop", "done"} /\ wi > 0
    /\ ThetaB(wMom, wFp23).t = "dir" /\ ThetaB(wMom, wFp23).y < 0
    /\ wLast.thetav = PiPlusThetaB(ThetaB(wMom, wFp23))
    /\ wLast.sec = 2
    /\ wLast.rhoConstraint = RhoSector2(wX[wi])
    /\ RhoGT(RhoUnconstraint(wX[wi]), wLast.rhoConstraint)

(* the samples of the scan of wX whose alphaF is at most 1 *)
AlphaFValid ==
    {i \in 1..Len(wX) : AlphaFULessEq1(wMom, wFp23, ThetaV(wX[i]))}

(* rhoConstraint and rhoUnconstraint of sample i of the scan, i in 1..n *)
RhoC(i) ==
    RhoConstraint(wX[i], ThetaB(wMom, wFp23),
                  Sector(ThetaB(wMom, wFp23), ThetaV(wX[i])))

RhoU(i) == RhoUnconstraint(wX[i])

(* C19 as stated: when a scan returns, rhoMax is the greatest rhoConstraint *)
(* of the samples and rhoBin the lowest index that attains it; rhoMaxU is  *)
(* the greatest rhoUnconstraint of the samples with alphaF <= 1 and        *)
(* rhoBinU the lowest index among them that attains it.                    *)
C19_MaximaOverSamples ==
    wpc = "done" =>
        /\ \A i \in 1..Len(wX) : RhoLE(RhoC(i), wOut.rhoMax)
        /\ RhoCmp(RhoC(wOut.rhoBin + 1), wOut.rhoMax) = 0
        /\ \A j \in 1..wOut.rhoBin : RhoGT(wOut.rhoMax, RhoC(j))
        /\ \A i \in AlphaFValid : RhoLE(RhoU(i), wOut.rhoMaxU)
        /\ wOut.rhoBinU + 1 \in AlphaFValid
        /\ RhoCmp(RhoU(wOut.rhoBinU + 1), wOut.rhoMaxU) = 0
        /\ \A j \in AlphaFValid :
               j <= wOut.rhoBinU => RhoGT(wOut.rhoMaxU, RhoU(j))

(* C19 as amended: each maximum is the greatest value of its branch, or 0  *)
(* when the branch has no sample; the bin is the lowest index attaining    *)
(* the maximum when the maximum is above 0, and 0 otherwise.               *)
C19_MaximaOrZero ==
    wpc = "done" =>
        /\ \A i \in 1..Len(wX) : RhoLE(RhoC(i), wOut.rhoMax)
        /\ IF RhoGT(wOut.rhoMax, RhoZero)
           THEN /\ RhoCmp(RhoC(wOut.rhoBin + 1), wOut.rhoMax) = 0
                /\ \A j \in 1..wOut.rhoBin : RhoGT(wOut.rhoMax, RhoC(j))
           ELSE wOut.rhoMax = RhoZero /\ wOut.rhoBin = 0
        /\ \A i \in AlphaFValid : RhoLE(RhoU(i), wOut.rhoMaxU)
        /\ IF RhoGT(wOut.rhoMaxU, RhoZero)
           THEN /\ wOut.rhoBinU + 1 \in AlphaFValid
                /\ RhoCmp(RhoU(wOut.rhoBinU + 1), wOut.rhoMaxU) = 0
                /\ \A j \in AlphaFValid :
                       j <= wOut.rhoBinU => RhoGT(wOut.rhoMaxU, RhoU(j))
           ELSE wOut.rhoMaxU = RhoZero /\ wOut.rhoBinU = 0

(* three samples: the constrained maximum is attained by the first and the *)
(* third and reported at the first; the unconstrained maximum comes from   *)
(* the second, and another sample has a higher unconstrained SNR but an    *)
(* alphaF above 1                                                          *)
C19_Witness ==
    /\ wpc = "done"
    /\ Len(wX) >= 2
    /\ wOut.rhoBin = 0
    /\ \E j \in 2..Len(wX) : RhoCmp(RhoC(j), wOut.rhoMax) = 0
    /\ RhoGT(wOut.rhoMax, RhoZero)
    /\ wOut.rhoBinU = 1
    /\ \E j \in 1..Len(wX) :
          j \notin AlphaFValid /\ RhoGT(RhoU(j), wOut.rhoMaxU)

-----------------------------------------------------------------------------
(* main: the simulation driver with a BCV template bank (specification     *)
(* Spec).  Frequencies are in units of df, so that a template's cutoff     *)
(* bin is k = floor(fFinal/df) = fFinal; the correlations of the signal    *)
(* with a template's two filters are inputs.                               *)

MaxBank == 2
MaxTrials == 2

(* pow(fCutoff, 2./3.) at the two cutoff frequencies of the bank *)
Fp23(fFinal) == IF fFinal = 8 THEN 4 ELSE 1

Templates == {[fFinal |-> 1, nLayer |-> 0], [fFinal |-> 8, nLayer |-> 1]}

Banks == UNION {[1..n -> Templates] : n \in 0..MaxBank}

(* a11, a21, a22 at the cutoff bins; a bin LALCreateMomentVector did not   *)
(* write holds 0, 0, 0                                                     *)
MomentVectors ==
    {[k \in {1, 8} |-> IF k = 1 THEN [a11 |-> 1, a21 |-> -1, a22 |-> 2]
                                ELSE [a11 |-> 3, a21 |-> -2, a22 |-> 1]],
     [k \in {1, 8} |-> IF k = 1 THEN ZeroMom
                                ELSE [a11 |-> 1, a21 |-> -2, a22 |-> 1]]}

Correlations ==
    {<<[x1 |-> 1, x2 |-> 0, x3 |-> 0, x4 |-> 0, nz |-> FALSE],
       [x1 |-> 1, x2 |-> 0, x3 |-> 0, x4 |-> 0, nz |-> FALSE]>>,
     <<[x1 |-> 0, x2 |-> 1, x3 |-> 1, x4 |-> -1, nz |-> FALSE],
       [x1 |-> 1, x2 |-> 0, x3 |-> 0, x4 |-> 0, nz |-> FALSE]>>}

(* randIn.param.fFinal of a trial's signal *)
SignalParams == {[fFinal |-> 1], [fFinal |-> 8]}

(* lines 75-185: the variables of main before the first trial, with the    *)
(* options opt; the three buffers come from LALCalloc (lines 129-133)      *)
MainState(opt, banks) ==
    /\ list \in banks
    /\ sizeBank = Len(list)
    /\ bank = list
    /\ moments \in MomentVectors
    /\ ntrials = 0
    /\ currentTemplate = 0
    /\ OverlapOutputBestTemplate = BEInitOverlapOutputIn
    /\ stdout = <<>>
    /\ scanned = <<>>
    /\ listFault = FALSE
    /\ otherIn \in opt
    /\ randIn = [fFinal |-> 0]
    /\ trialX = <<>>
    /\ histogramNoise = 0
    /\ counted = {}
    /\ WaveLocalsIdle
    /\ correlation = [i \in 1..2 |-> RhoZero]
    /\ FilterBCV1 = ZeroBuffer(SignalLength)
    /\ FilterBCV2 = ZeroBuffer(SignalLength)
    /\ KeepIdle /\ OrthIdle /\ MomentIdle

(* main at line 150, after UpdateParams and BECreatePsd *)
MainInit(opt, banks) ==
    /\ pc = "BECreateBank"
    /\ ConfigDone
    /\ MainState(opt, banks)

Init == MainInit({DefaultOtherIn}, Banks)

(* lines 4421-4428: "if (sizeBank == 0)" compares the pointer sizeBank,    *)
(* which is never null, so the "bank is empty" exit is never taken         *)
BECreateBank ==
    /\ pc = "BECreateBank"
    /\ pc' = "LALCreateMomentVector"
    /\ UNCHANGED <<sizeBank, list, moments, ntrials, currentTemplate,
                   OverlapOutputBestTemplate, stdout, scanned, listFault>>
    /\ UNCHANGED <<otherIn, randIn, bank, trialX, histogramNoise, counted>>
    /\ UNCHANGED <<keepVars, orthVars, waveVars, momentVars, configVars,
                   powerVars, functionVars>>

(* line 180: LALCreateMomentVector(&moments, &shf, &(list[0].params), n)   *)
(* reads list[0].params.fLower and .tSampling; list[0] does not exist in   *)
(* an empty bank: the read faults or yields garbage                        *)
CreateMoments ==
    /\ pc = "LALCreateMomentVector"
    /\ listFault' = (sizeBank = 0)
    /\ pc' \in IF sizeBank = 0 THEN {"trial", "crashed"} ELSE {"trial"}
    /\ UNCHANGED <<sizeBank, list, moments, ntrials, currentTemplate,
                   OverlapOutputBestTemplate, stdout, scanned>>
    /\ UNCHANGED <<otherIn, randIn, bank, trialX, histogramNoise, counted>>
    /\ UNCHANGED <<keepVars, orthVars, waveVars, momentVars, configVars,
                   powerVars, functionVars>>

(* a bug: the best-match tracker is not reset *)
TrialBegin_NoReset ==
    /\ pc = "trial"
    /\ ntrials' = ntrials + 1
    /\ IF ntrials + 1 <= MaxTrials
       THEN /\ pc' = "template"
            /\ currentTemplate' = 0
            /\ scanned' = <<>>
            /\ randIn' \in SignalParams
            /\ trialX' = <<>>
            /\ UNCHANGED OverlapOutputBestTemplate
       ELSE /\ pc' = "done"
            /\ UNCHANGED <<currentTemplate, OverlapOutputBestTemplate,
                           scanned, randIn, trialX>>
    /\ UNCHANGED <<sizeBank, list, moments, stdout, listFault>>
    /\ UNCHANGED <<otherIn, bank, histogramNoise, counted>>
    /\ UNCHANGED <<keepVars, orthVars, waveVars, momentVars, configVars,
                   powerVars, functionVars>>

(* lines 191-229: while (++ntrials <= otherIn.ntrials), with MaxTrials for *)
(* otherIn.ntrials; BEInitOverlapOutputIn(&OverlapOutputBestTemplate);     *)
(* BEGenerateInputData draws the trial's signal                            *)
TrialBegin ==
    /\ pc = "trial"
    /\ ntrials' = ntrials + 1
    /\ IF ntrials + 1 <= MaxTrials
       THEN /\ pc' = "template"
            /\ currentTemplate' = 0
            /\ OverlapOutputBestTemplate' = BEInitOverlapOutputIn
            /\ scanned' = <<>>
            /\ randIn' \in SignalParams
            /\ trialX' = <<>>
       ELSE /\ pc' = "done"
            /\ UNCHANGED <<currentTemplate, OverlapOutputBestTemplate,
                           scanned, randIn, trialX>>
    /\ UNCHANGED <<sizeBank, list, moments, stdout, listFault>>
    /\ UNCHANGED <<otherIn, bank, histogramNoise, counted>>
    /\ UNCHANGED <<keepVars, orthVars, waveVars, momentVars, configVars,
                   powerVars, functionVars>>

(* lines 4500-4532 and 1799-1869: LALInspiralOverlapBCV on the entry       *)
(* templateNumber of the bank l, up to the correlations of                 *)
(* LALWaveOverlapBCV; X is what the correlations of the signal with the    *)
(* template's filters will give                                            *)
OverlapBCVCall(l, templateNumber, X) ==
    /\ wpc = "idle"
    /\ list' = IF otherIn.signal = "BCV"
               THEN [l EXCEPT ![templateNumber + 1].fFinal = randIn.fFinal]
               ELSE l
    /\ wMom' = moments[list'[templateNumber + 1].fFinal]
    /\ wFp23' = Fp23(list'[templateNumber + 1].fFinal)
    /\ FilterBCV1' = CreateFilter(FilterBCV1, Amplitude1(wMom'), KMin)
    /\ FilterBCV2' = CreateFilter(FilterBCV2, Amplitude2(wMom'), KMin)
    /\ wX' = X
    /\ wBegin' = 0
    /\ wEnd' = 0
    /\ wi' = 0
    /\ wRun' = WaveRunInit
    /\ wLast' = WaveLastInit
    /\ wOut' = [BEInitOverlapOutputIn EXCEPT !.rhoMax = RhoSentinel]
    /\ wOther' = otherIn
    /\ wpc' = "correlate"
    /\ UNCHANGED <<wErr, correlation>>

(* lines 234-267: the next template of the bank; in faithfulness mode the  *)
(* entry takes the parameters of the signal and the bank shrinks to one    *)
(* template; the correlations of the signal with the template's filters   *)
(* are one of C                                                            *)
TemplateBeginWith(C) ==
    /\ pc = "template"
    /\ currentTemplate < sizeBank
    /\ \E X \in C :
          /\ OverlapBCVCall(
                 IF otherIn.faithfulness
                 THEN [list EXCEPT ![currentTemplate + 1].fFinal = randIn.fFinal]
                 ELSE list,
                 currentTemplate, X)
          /\ trialX' = Append(trialX, X)
    /\ sizeBank' = IF otherIn.faithfulness THEN 1 ELSE sizeBank
    /\ pc' = "LALInspiralOverlapBCV"
    /\ UNCHANGED <<moments, ntrials, currentTemplate,
                   OverlapOutputBestTemplate, stdout, scanned, listFault>>
    /\ UNCHANGED <<otherIn, randIn, bank, histogramNoise, counted>>
    /\ UNCHANGED <<keepVars, orthVars, momentVars, configVars, powerVars, functionVars>>

TemplateBegin == TemplateBeginWith(Correlations)

(* lines 269-274: OverlapOutputThisTemplate after the call *)
ThisTemplate ==
    [wOut EXCEPT !.freq = list[currentTemplate + 1].fFinal,
                 !.freqU = list[currentTemplate + 1].fFinal,
                 !.templateNumber = currentTemplate,
                 !.templateNumberU = currentTemplate,
                 !.layer = list[currentTemplate + 1].nLayer,
                 !.layerU = list[currentTemplate + 1].nLayer]

(* lines 269-274 and 354-372: LALInspiralOverlapBCV has returned; the      *)
(* result is completed, the histogram is filled from the correlation       *)
(* buffer, the result is merged and the loop goes to the next template     *)
TemplateEnd ==
    /\ pc = "LALInspiralOverlapBCV"
    /\ wpc = "done"
    /\ OverlapOutputBestTemplate' =
           KeepHighestValues(ThisTemplate, OverlapOutputBestTemplate)
    /\ scanned' = Append(scanned, ThisTemplate)
    /\ IF otherIn.printSNRHisto
       THEN /\ counted' = HistogramCounted(correlation)
            /\ histogramNoise' =
                   histogramNoise + Cardinality(HistogramCounted(correlation))
       ELSE UNCHANGED <<histogramNoise, counted>>
    /\ currentTemplate' = currentTemplate + 1
    /\ pc' = "template"
    /\ wpc' = "idle"
    /\ UNCHANGED <<wMom, wFp23, wBegin, wEnd, wX, wi, wRun, wLast, wOut, wErr, wOther,
                   correlation, FilterBCV1, FilterBCV2>>
    /\ UNCHANGED <<sizeBank, list, moments, ntrials, stdout, listFault>>
    /\ UNCHANGED <<otherIn, randIn, bank, trialX>>
    /\ UNCHANGED <<keepVars, orthVars, momentVars, configVars, powerVars, functionVars>>

(* lines 1506-1509: GetResult reads list[templateNumber] and               *)
(* list[templateNumberC]                                                   *)
GetResultFaults ==
    \/ OverlapOutputBestTemplate.templateNumberU >= sizeBank
    \/ OverlapOutputBestTemplate.templateNumber >= sizeBank

(* lines 1541-1555 and 385: the trial's summary *)
TrialSummary ==
    [ntrial |-> ntrials,
     fend_triggerU |->
        IF OverlapOutputBestTemplate.templateNumberU < sizeBank
        THEN list[OverlapOutputBestTemplate.templateNumberU + 1].fFinal
        ELSE "garbage",
     fend_trigger |->
        IF OverlapOutputBestTemplate.templateNumber < sizeBank
        THEN list[OverlapOutputBestTemplate.templateNumber + 1].fFinal
        ELSE "garbage",
     rho_final |-> OverlapOutputBestTemplate.rhoMax,
     bin |-> OverlapOutputBestTemplate.rhoBin,
     phase |-> OverlapOutputBestTemplate.phase,
     layer |-> OverlapOutputBestTemplate.layer,
     rho_finalU |-> OverlapOutputBestTemplate.rhoMaxU,
     binU |-> OverlapOutputBestTemplate.rhoBinU,
     phaseU |-> OverlapOutputBestTemplate.phaseU,
     layerU |-> OverlapOutputBestTemplate.layerU]

(* a bug: the summary is printed as soon as one template is scanned *)
TrialEnd_AfterFirstTemplate ==
    /\ pc = "template"
    /\ currentTemplate >= sizeBank \/ currentTemplate >= 1
    /\ listFault' = (listFault \/ GetResultFaults)
    /\ stdout' = Append(stdout, TrialSummary)
    /\ pc' = "trial"
    /\ UNCHANGED <<sizeBank, list, moments, ntrials, currentTemplate,
                   OverlapOutputBestTemplate, scanned>>
    /\ UNCHANGED <<otherIn, randIn, bank, trialX, histogramNoise, counted>>
    /\ UNCHANGED <<keepVars, orthVars, waveVars, momentVars, configVars,
                   powerVars, functionVars>>

(* lines 379-400: the bank is scanned, GetResult and PrintResults; a read  *)
(* of list[] beyond the bank faults or yields garbage; with                *)
(* printBestOverlap the best template is then filtered once more, and      *)
(* extraFinalPrinting is set and stays set                                 *)
TrialEnd ==
    /\ pc = "template"
    /\ currentTemplate >= sizeBank
    /\ listFault' = (listFault \/ GetResultFaults)
    /\ \/ /\ stdout' = Append(stdout, TrialSummary)
          /\ IF otherIn.printBestOverlap
             THEN /\ otherIn' = [otherIn EXCEPT !.extraFinalPrinting = TRUE]
                  /\ pc' = "final"
             ELSE /\ pc' = "trial"
                  /\ UNCHANGED otherIn
       \/ /\ GetResultFaults
          /\ pc' = "crashed"
          /\ UNCHANGED <<stdout, otherIn>>
    /\ UNCHANGED <<sizeBank, list, moments, ntrials, currentTemplate,
                   OverlapOutputBestTemplate, scanned>>
    /\ UNCHANGED <<randIn, bank, trialX, histogramNoise, counted>>
    /\ UNCHANGED <<keepVars, orthVars, waveVars, momentVars, configVars,
                   powerVars, functionVars>>

(* lines 401-412: LALInspiralOverlapBCV on the best template of the trial, *)
(* with the same signal                                                    *)
FinalPrintBegin ==
    /\ pc = "final"
    /\ IF OverlapOutputBestTemplate.templateNumber < Len(trialX)
       THEN /\ OverlapBCVCall(list, OverlapOutputBestTemplate.templateNumber,
                              trialX[OverlapOutputBestTemplate.templateNumber + 1])
            /\ pc' = "LALInspiralOverlapBCV final"
            /\ UNCHANGED listFault
       ELSE /\ listFault' = TRUE
            /\ pc' = "crashed"
            /\ UNCHANGED <<list, waveVars>>
    /\ UNCHANGED <<sizeBank, moments, ntrials, currentTemplate,
                   OverlapOutputBestTemplate, stdout, scanned>>
    /\ UNCHANGED <<otherIn, randIn, bank, trialX, histogramNoise, counted>>
    /\ UNCHANGED <<keepVars, orthVars, momentVars, configVars, powerVars, functionVars>>

(* lines 412-416: the call has returned, its result is not used *)
FinalPrintEnd ==
    /\ pc = "LALInspiralOverlapBCV final"
    /\ wpc = "done"
    /\ pc' = "trial"
    /\ wpc' = "idle"
    /\ UNCHANGED <<wMom, wFp23, wBegin, wEnd, wX, wi, wRun, wLast, wOut, wErr, wOther,
                   correlation, FilterBCV1, FilterBCV2>>
    /\ UNCHANGED <<sizeBank, list, moments, ntrials, currentTemplate,
                   OverlapOutputBestTemplate, stdout, scanned, listFault>>
    /\ UNCHANGED <<otherIn, randIn, bank, trialX, histogramNoise, counted>>
    /\ UNCHANGED <<keepVars, orthVars, momentVars, configVars, powerVars, functionVars>>

Next ==
    \/ BECreateBank
    \/ CreateMoments
    \/ TrialBegin
    \/ TemplateBegin
    \/ WaveCorrelate
    \/ WaveStep
    \/ WaveMustNotEnter
    \/ WaveReturn
    \/ TemplateEnd
    \/ TrialEnd

Spec == Init /\ [][Next]_vars

(* C2: within a trial the seven fields of the best constrained sub-record  *)
(* are those of one single scanned template's result, the one whose index  *)
(* is in templateNumber, and the seven unconstrained fields those of the   *)
(* one in templateNumberU; before the first merge both are the sentinel.   *)
C2_SubRecordsFromOneTemplate ==
    IF scanned = <<>>
    THEN OverlapOutputBestTemplate = BEInitOverlapOutputIn
    ELSE /\ OverlapOutputBestTemplate.templateNumber < Len(scanned)
         /\ Constrained(OverlapOutputBestTemplate) =
               Constrained(scanned[OverlapOutputBestTemplate.templateNumber + 1])
         /\ OverlapOutputBestTemplate.templateNumberU < Len(scanned)
         /\ Unconstrained(OverlapOutputBestTemplate) =
               Unconstrained(scanned[OverlapOutputBestTemplate.templateNumberU + 1])

(* two templates scanned: the constrained best is the second one's, the    *)
(* unconstrained best the first one's, and their fields differ             *)
C2_Witness ==
    /\ Len(scanned) = 2
    /\ OverlapOutputBestTemplate.templateNumber = 1
    /\ OverlapOutputBestTemplate.templateNumberU = 0
    /\ scanned[1].alpha # scanned[2].alpha
    /\ scanned[1].freqU # scanned[2].freqU

(* C3: with an empty bank no template entry is read and the run does not   *)
(* crash; the scan merges nothing and the tracker is at its sentinel when  *)
(* the trial's result is produced.                                         *)
C3_EmptyBankReadsNoTemplate ==
    sizeBank = 0 =>
        /\ ~listFault
        /\ pc # "crashed"
        /\ scanned = <<>>
        /\ OverlapOutputBestTemplate.rhoMax = RhoSentinel
        /\ OverlapOutputBestTemplate.rhoMaxU = RhoSentinel

(* C6: a sample in none of the three sectors is reported and the program   *)
(* exits at that sample: afterwards no sample, template or trial is        *)
(* processed, the template's result is not merged and no TrialSummary is   *)
(* printed for the trial.                                                  *)
C6_MustNotEnterAborts ==
    [][/\ (wpc = "loop" /\ wi < Len(wX) /\ WaveSector = 0) =>
              /\ wpc' = "exited"
              /\ wErr' = Append(wErr, "must not enter here")
              /\ UNCHANGED <<wi, wRun, wOut, mainVars>>
       /\ wpc = "exited" => UNCHANGED vars
       /\ wpc' = "exited" =>
              /\ Len(stdout') = ntrials' - 1
              /\ Len(scanned') = currentTemplate']_vars

(* the program has exited at the first sample of the second template of   *)
(* the first trial: a sample and a trial are left, one template is merged  *)
(* and nothing is printed                                                  *)
C6_Witness ==
    /\ wpc = "exited"
    /\ wErr = <<"must not enter here">>
    /\ pc = "LALInspiralOverlapBCV"
    /\ wi = 0 /\ Len(wX) > 1
    /\ ntrials = 1 /\ ntrials < MaxTrials
    /\ currentTemplate = 1
    /\ Len(scanned) = 1
    /\ OverlapOutputBestTemplate = scanned[1]
    /\ stdout = <<>>

-----------------------------------------------------------------------------
(* main with the options that reach the overlap engine (specification      *)
(* SpecTrials): --faithfulness, a BCV signal, --no-alpha-constraint with   *)
(* --print-snr-histo, and these with --print-best-overlap.                 *)

TrialOptions ==
    {DefaultOtherIn,
     [DefaultOtherIn EXCEPT !.faithfulness = TRUE],
     [DefaultOtherIn EXCEPT !.signal = "BCV"],
     [DefaultOtherIn EXCEPT !.alphaFConstraint = "ALPHAFUnconstraint",
                            !.printSNRHisto = TRUE],
     [DefaultOtherIn EXCEPT !.alphaFConstraint = "ALPHAFUnconstraint",
                            !.printSNRHisto = TRUE,
                            !.printBestOverlap = TRUE]}

TrialsInit == MainInit(TrialOptions, Banks)

TrialsNext ==
    \/ BECreateBank
    \/ CreateMoments
    \/ TrialBegin
    \/ TemplateBegin
    \/ WaveCorrelate
    \/ WaveStep
    \/ WaveMustNotEnter
    \/ WaveReturn
    \/ TemplateEnd
    \/ TrialEnd
    \/ FinalPrintBegin
    \/ FinalPrintEnd

SpecTrials == TrialsInit /\ [][TrialsNext]_vars

(* the run has ended: after the last trial, by the exit of "must not enter *)
(* here", or by a fault                                                    *)
Terminated == pc \in {"done", "crashed"} \/ wpc = "exited"

(* how far the run is: the trial, then the place in the trial, then the    *)
(* place in the call of LALInspiralOverlapBCV.  Every step of the program  *)
(* raises it and it never exceeds ProgressLimit, so every run terminates.  *)
WaveProgress ==
    IF wpc = "correlate" THEN 1
    ELSE IF wpc = "loop" THEN 2 + wi
    ELSE IF wpc = "done" THEN 3 + Len(wX)
    ELSE IF wpc = "exited" THEN 4 + Len(wX)
    ELSE 0

TrialProgress ==
    IF pc = "template" THEN currentTemplate * (6 + MaxSamples)
    ELSE IF pc = "LALInspiralOverlapBCV"
         THEN currentTemplate * (6 + MaxSamples) + WaveProgress
    ELSE IF pc = "final" THEN (MaxBank + 1) * (6 + MaxSamples)
    ELSE IF pc = "LALInspiralOverlapBCV final"
         THEN (MaxBank + 1) * (6 + MaxSamples) + WaveProgress
    ELSE (MaxBank + 2) * (6 + MaxSamples)

Progress ==
    IF pc = "BECreateBank" THEN 0
    ELSE IF pc = "LALCreateMomentVector" THEN 1
    ELSE 2 + ntrials * (MaxBank + 3) * (6 + MaxSamples) + TrialProgress
         + (IF pc = "crashed" THEN 1 ELSE 0)

ProgressLimit == 2 + (MaxTrials + 2) * (MaxBank + 3) * (6 + MaxSamples)

TemplatesToScan ==
    IF otherIn.faithfulness /\ Len(bank) >= 1 THEN 1 ELSE Len(bank)

RECURSIVE WaveLoop(_, _, _, _, _)
WaveLoop(run, i, X, mom, fp23) ==
    IF i >= Len(X) THEN run
    ELSE WaveLoop(WaveSample(run, i, X[i + 1], mom, fp23,
                             Sector(ThetaB(mom, fp23), ThetaV(X[i + 1]))),
                  i + 1, X, mom, fp23)

(* lines 249-254 and 4504-4510: the template the filters are made from *)
TemplateUsed(b, t, sig, opt) ==
    IF opt.faithfulness \/ opt.signal = "BCV"
    THEN [b[t + 1] EXCEPT !.fFinal = sig.fFinal]
    ELSE b[t + 1]

(* lines 256-274: OverlapOutputThisTemplate of template t *)
ScanOfTemplate(b, t, sig, X, mv, opt) ==
    LET tpl == TemplateUsed(b, t, sig, opt)
        run == WaveLoop(WaveRunInit, 0, X, mv[tpl.fFinal], Fp23(tpl.fFinal))
    IN  [WaveOutput(BEInitOverlapOutputIn, run)
            EXCEPT !.freq = tpl.fFinal, !.freqU = tpl.fFinal,
                   !.templateNumber = t, !.templateNumberU = t,
                   !.layer = tpl.nLayer, !.layerU = tpl.nLayer]

(* lines 200 and 234-372: the best-match record after the first n templates *)
RECURSIVE BestOfScan(_, _, _, _, _, _)
BestOfScan(b, n, sig, Xs, mv, opt) ==
    IF n = 0 THEN BEInitOverlapOutputIn
    ELSE KeepHighestValues(ScanOfTemplate(b, n - 1, sig, Xs[n], mv, opt),
                           BestOfScan(b, n - 1, sig, Xs, mv, opt))

(* lines 379-386: the summary of trial t *)
SummaryOfTrial(t, b, sig, Xs, mv, opt) ==
    LET n == IF opt.faithfulness THEN 1 ELSE Len(b)
        best == BestOfScan(b, n, sig, Xs, mv, opt)
    IN  [ntrial |-> t,
         fend_triggerU |->
             TemplateUsed(b, best.templateNumberU, sig, opt).fFinal,
         fend_trigger |->
             TemplateUsed(b, best.templateNumber, sig, opt).fFinal,
         rho_final |-> best.rhoMax, bin |-> best.rhoBin,
         phase |-> best.phase, layer |-> best.layer,
         rho_finalU |-> best.rhoMaxU, binU |-> best.rhoBinU,
         phaseU |-> best.phaseU, layerU |-> best.layerU]

(* C13: with a bank that is not empty, the summary printed for a trial is  *)
(* a function of the trial's signal, the bank as created, the moments and  *)
(* the command-line options: the tracker is reset when a trial begins, the *)
(* filters every correlation is taken with are those a zeroed buffer would *)
(* give, and neither extraFinalPrinting nor the changed bank entries and   *)
(* bank size nor the buffers change the printed values.                    *)
C13_SummaryDependsOnTrialOnly ==
    /\ [][/\ (pc = "trial" /\ pc' = "template") =>
                OverlapOutputBestTemplate' = BEInitOverlapOutputIn
          /\ (stdout' # stdout /\ Len(bank) >= 1) =>
                stdout' = Append(stdout,
                    SummaryOfTrial(ntrials, bank, randIn, trialX, moments,
                        [faithfulness |-> otherIn.faithfulness,
                         signal |-> otherIn.signal]))]_vars
    /\ [](wpc = "correlate" =>
            /\ FilterBCV1 = CreateFilter(ZeroBuffer(SignalLength),
                                         Amplitude1(wMom), KMin)
            /\ FilterBCV2 = CreateFilter(ZeroBuffer(SignalLength),
                                         Amplitude2(wMom), KMin))

(* the second summary of a run with --print-best-overlap is printed: the   *)
(* first trial left extraFinalPrinting set, filters that were              *)
(* orthogonalized twice and a higher best SNR than the second trial finds  *)
C13_Witness ==
    /\ Len(stdout) = 2
    /\ otherIn.extraFinalPrinting
    /\ FilterBCV1 # ZeroBuffer(SignalLength)
    /\ RhoGT(stdout[1].rho_final, stdout[2].rho_final)
    /\ RhoGT(stdout[2].rho_final, RhoZero)
    /\ Len(bank) = 2

(* the four running values of the unconstrained maximum *)
RunUnconstraint(run) ==
    <<run.rhoMaxUnconstraint, run.rhoBinUnconstraint, run.phaseUnconstraint,
      run.alphaUnconstraint>>

(* C16: a sample whose alphaF exceeds 1 does not change rhoMaxU, rhoBinU,  *)
(* phaseU or alphaU, and the loop goes on to the next sample; with         *)
(* --no-alpha-constraint and --print-snr-histo, when a template's scan     *)
(* returns to main the correlation entry of such a sample is -1 and that   *)
(* of every other sample is its unconstrained SNR, and the histogram loop  *)
(* counts exactly the samples with alphaF <= 1.                            *)
C16_AlphaFAbove1Excluded ==
    /\ [][(/\ wpc = "loop" /\ wi < Len(wX) /\ WaveSector # 0
           /\ ~AlphaFULessEq1(wMom, wFp23, ThetaV(wX[wi + 1]))) =>
              /\ RunUnconstraint(wRun') = RunUnconstraint(wRun)
              /\ wpc' = "loop" /\ wi' = wi + 1]_vars
    /\ []((/\ otherIn.alphaFConstraint # "ALPHAFConstraint"
           /\ otherIn.printSNRHisto) =>
              /\ (pc = "LALInspiralOverlapBCV" /\ wpc = "done") =>
                     \A i \in 1..Len(wX) :
                        correlation[i] = IF i \in AlphaFValid
                                         THEN RhoUnconstraint(wX[i])
                                         ELSE RhoSentinel
              /\ (pc = "template" /\ currentTemplate > 0) =>
                     counted = AlphaFValid)

(* C20: whenever LALWaveOverlapBCV correlates the signal with the filters, *)
(* as LALCreateFilters left them and after their orthogonalization, both   *)
(* filters are 0 at every bin below kMin, bin kMin - 1 included, in every  *)
(* template of every trial.                                                *)
C20_FiltersZeroBelowKMin ==
    wpc \in {"correlate", "loop"} =>
        \A i \in 0..KMin - 1 : FilterBCV1[i + 1] = 0 /\ FilterBCV2[i + 1] = 0

(* the second template of the second trial of a run with                   *)
(* --print-best-overlap: every earlier call has filled the buffers and     *)
(* orthogonalized them once or twice; the orthogonalized filters are not   *)
(* zero at kMin + 1                                                        *)
C20_Witness ==
    /\ wpc = "loop"
    /\ pc = "LALInspiralOverlapBCV"
    /\ ntrials = 2 /\ currentTemplate = 1
    /\ otherIn.extraFinalPrinting
    /\ FilterBCV1[KMin + 2] # 0 /\ FilterBCV2[KMin + 2] # 0
    /\ \A i \in 0..KMin - 1 : FilterBCV1[i + 1] = 0 /\ FilterBCV2[i + 1] = 0

-----------------------------------------------------------------------------
(* main from UpdateParams on, with arbitrary parameters (specification     *)
(* SpecConfig).  tSampling = 2048 Hz, so the Nyquist frequency is 1024 Hz. *)

UserInputs ==
    {[DefaultConfig EXCEPT !.fUpper = fu, !.fCutoff = fc, !.alpha = al,
                           !.gridType = gt, !.mMin = mm, !.psi0Min = p0,
                           !.detector = de, !.noiseModel = nm,
                           !.template = te, !.signal = si] :
        fu \in {-1, 30, 1000, 1023, 1024, 2000},
        fc \in {1000, 1023, 1024, 2000},
        al \in {-1, 0}, gt \in {"None", "Square"}, mm \in {0, 5, 30},
        p0 \in {0, 10}, de \in {"None", "L1"}, nm \in {"None", "LIGOI"},
        te \in {"-1", "BCV"}, si \in {"-1", "EOB"}}

ConfigInit ==
    /\ pc = "UpdateParams"
    /\ FunctionsIdle
    /\ argv \in UserInputs
    /\ config = argv
    /\ stderr = <<>>
    /\ MainState({DefaultOtherIn}, {b \in Banks : Len(b) = 1})

(* a bug: the error is printed and the run goes on *)
UpdateParams_NoExit ==
    /\ pc = "UpdateParams"
    /\ config' = UpdateFrequencies(config)
    /\ IF FailedChecks(config') # {}
       THEN stderr' = stderr \o BEPrintError(
                          ConfigChecks(config')[FirstFailed(config')].msg)
       ELSE UNCHANGED stderr
    /\ pc' = "BECreatePsd"
    /\ UNCHANGED <<argv, keepVars, orthVars, waveVars, momentVars, powerVars, functionVars>>
    /\ UNCHANGED <<sizeBank, list, moments, ntrials, currentTemplate,
                   OverlapOutputBestTemplate, stdout, scanned, listFault>>
    /\ UNCHANGED <<otherIn, randIn, bank, trialX, histogramNoise, counted>>

(* lines 87 and 1003-1336: the frequencies are updated, then the checks    *)
(* are made in order; the first that fails calls BEPrintError, which       *)
(* exits                                                                   *)
UpdateParams ==
    /\ pc = "UpdateParams"
    /\ config' = UpdateFrequencies(config)
    /\ IF FailedChecks(config') # {}
       THEN /\ stderr' = stderr \o BEPrintError(
                             ConfigChecks(config')[FirstFailed(config')].msg)
            /\ pc' = "exited"
       ELSE /\ pc' = "BECreatePsd"
            /\ UNCHANGED stderr
    /\ UNCHANGED <<argv, keepVars, orthVars, waveVars, momentVars, powerVars, functionVars>>
    /\ UNCHANGED <<sizeBank, list, moments, ntrials, currentTemplate,
                   OverlapOutputBestTemplate, stdout, scanned, listFault>>
    /\ UNCHANGED <<otherIn, randIn, bank, trialX, histogramNoise, counted>>

(* lines 92-145: the noise spectrum is created *)
BECreatePsd ==
    /\ pc = "BECreatePsd"
    /\ pc' = "BECreateBank"
    /\ UNCHANGED <<keepVars, orthVars, waveVars, momentVars, configVars,
                   powerVars, functionVars>>
    /\ UNCHANGED <<sizeBank, list, moments, ntrials, currentTemplate,
                   OverlapOutputBestTemplate, stdout, scanned, listFault>>
    /\ UNCHANGED <<otherIn, randIn, bank, trialX, histogramNoise, counted>>

ConfigNext ==
    \/ UpdateParams
    \/ BECreatePsd
    \/ BECreateBank
    \/ CreateMoments
    \/ TrialBegin
    \/ TemplateBegin
    \/ WaveCorrelate
    \/ WaveStep
    \/ WaveMustNotEnter
    \/ WaveReturn
    \/ TemplateEnd
    \/ TrialEnd

SpecConfig == ConfigInit /\ [][ConfigNext]_vars

(* the Nyquist frequency tSampling/2 *)
Nyquist(c) == c.tSampling \div 2

(* one of the checks of UpdateParams fails on the parameters c *)
AnyCheckFails(c) ==
    \E i \in DOMAIN ConfigChecks(c) : ConfigChecks(c)[i].failed

(* C14: the noise spectrum, the bank and the trials are created only once  *)
(* every check has been evaluated and has passed; when a check fails the   *)
(* program exits with the three lines of BEPrintError, whose second line   *)
(* names a failed check, and no trial is run and no summary is printed.    *)
C14_ChecksBeforeAnyTrial ==
    /\ pc \notin {"UpdateParams", "exited"} => ~AnyCheckFails(config)
    /\ (pc # "UpdateParams" /\ AnyCheckFails(config)) =>
           /\ pc = "exited"
           /\ Len(stderr) = 3
           /\ \E i \in DOMAIN ConfigChecks(config) :
                 /\ ConfigChecks(config)[i].failed
                 /\ stderr[2] = ConfigChecks(config)[i].msg
           /\ ntrials = 0 /\ stdout = <<>> /\ scanned = <<>> /\ wpc = "idle"

(* the program has exited on a bank mass range that is not sorted, with    *)
(* nothing else wrong                                                      *)
C14_Witness ==
    /\ pc = "exited"
    /\ argv.mMin >= argv.mMax
    /\ stderr[2] = "--bank-mass-range"
    /\ Cardinality(FailedChecks(config)) = 1
    /\ ntrials = 0 /\ stdout = <<>>

(* C15: a bank fUpper or a signal fCutoff given at or above the Nyquist    *)
(* frequency makes the program exit with a configuration error, and the    *)
(* frequencies a run uses are those the user gave.                         *)
C15_NyquistRejectedNotReplaced ==
    /\ (pc # "UpdateParams"
          /\ (argv.fUpper >= Nyquist(argv) \/ argv.fCutoff >= Nyquist(argv))) =>
           /\ pc = "exited"
           /\ Len(stderr) = 3
    /\ pc \notin {"UpdateParams", "exited"} =>
           /\ argv.fUpper # -1 => config.fUpper = argv.fUpper
           /\ config.fCutoff = argv.fCutoff

-----------------------------------------------------------------------------
(* LALCreateMomentVector on arbitrary noise spectra (specification         *)
(* SpecMoment).  psd->f0 = 0 and bin k is at f = k*deltaF; mPsd[k + 1] is  *)
(* psd->data->data[k], for k = 0..N/2, and the vectors a11, a21, a22 have  *)
(* the N/2 entries k = 0..N/2-1.  kMin >= 1: fLower is above 0; kMin may   *)
(* lie above the Nyquist bin N/2, nothing in the function compares them.   *)
(*                                                                         *)
(* pow(f, -1/3) is kept to the nearest tenth of pow(deltaF, -1/3), and     *)
(* pow(f, -7/3), pow(f, -5/3), pow(f, -1) are its 7th, 5th and 3rd power.  *)
(* The sums are kept without the common factor deltaF/in.norm and with     *)
(* 1/psd as 2/psd, which scales m7, m5, m3 by positive constants and       *)
(* m3 - m5*m5/m7 by one positive constant.                                 *)

MaxBins == 4

PsdValues == {0, 1, 2}

(* pow(f, -1/3) at bin k >= 1, in tenths *)
FM13(k) ==
    CHOOSE g \in 1..10 :
        /\ (2 * g - 1) * (2 * g - 1) * (2 * g - 1) * k <= 8000
        /\ 8000 < (2 * g + 1) * (2 * g + 1) * (2 * g + 1) * k

Pow3(g) == g * g * g
Pow5(g) == g * g * g * g * g
Pow7(g) == g * g * g * g * g * g * g

(* the sign of a/b - c/d for a, c >= 0 and b, d > 0, without products *)
RECURSIVE CmpFrac(_, _, _, _)
CmpFrac(a, b, c, d) ==
    IF a \div b # c \div d THEN Sgn((a \div b) - (c \div d))
    ELSE IF a % b = 0 \/ c % d = 0 THEN Sgn((a % b) - (c % d))
    ELSE - CmpFrac(b, a % b, d, c % d)

(* the sign of m3 - m5*m5/m7, m7 > 0, in exact arithmetic *)
RadicandSign(sum) == CmpFrac(sum.m3, sum.m5, sum.m5, sum.m7)

MZero == [t |-> "zero"]

(* 1./sqrt(m7) *)
A11(sum) == [t |-> "invsqrt", m7 |-> sum.m7]

(* 1./sqrt(m3 - m5*m5/m7), with the sign sg of the computed radicand *)
A22(sum, sg) ==
    IF sg < 0 THEN [t |-> "nan"]
    ELSE IF sg = 0 THEN [t |-> "inf"]
    ELSE [t |-> "invsqrt", m7 |-> sum.m7, m5 |-> sum.m5, m3 |-> sum.m3]

(* -m5/m7 * a22 *)
A21(sum, a22) ==
    IF a22.t = "nan" THEN [t |-> "nan"]
    ELSE IF a22.t = "inf" THEN [t |-> "neginf"]
    ELSE [t |-> "neg", m7 |-> sum.m7, m5 |-> sum.m5, m3 |-> sum.m3]

(* lines 1663-1665 *)
Accumulate(sum, k, psd) ==
    [m7 |-> sum.m7 + Pow7(FM13(k)) * (2 \div psd),
     m5 |-> sum.m5 + Pow5(FM13(k)) * (2 \div psd),
     m3 |-> sum.m3 + Pow3(FM13(k)) * (2 \div psd)]

(* the number of entries of a11, a21, a22: length/2 *)
MomentLength == Len(mPsd) - 1

MomentInit ==
    /\ mpc = "skip"
    /\ mPsd \in UNION {[1..n + 1 -> PsdValues] : n \in 2..MaxBins}
    /\ mKMin \in 1..Len(mPsd) + 1
    /\ mk = 0
    /\ mOOB = {}
    /\ mSum = ZeroSums
    /\ mPrev = ZeroSums
    /\ mA = [k \in 0..Len(mPsd) - 2 |-> [a11 |-> MZero, a21 |-> MZero, a22 |-> MZero]]
    /\ KeepIdle /\ OrthIdle /\ WaveIdle /\ MainIdle /\ ConfigDone

(* lines 1651-1656: the bins below kMin are set to 0, with no test of k   *)
(* against the length of the vectors; a write beyond it overruns the       *)
(* allocation, after which the run goes on or faults                       *)
MomentSkipBelow ==
    /\ mpc = "skip"
    /\ mA' = [k \in DOMAIN mA |->
                 IF k < mKMin
                 THEN [a11 |-> MZero, a21 |-> MZero, a22 |-> MZero]
                 ELSE mA[k]]
    /\ mOOB' = {k \in 0..mKMin - 1 : k >= MomentLength}
    /\ mk' = mKMin
    /\ mpc' \in IF mKMin > MomentLength THEN {"loop", "crashed"} ELSE {"loop"}
    /\ UNCHANGED <<mPsd, mKMin, mSum, mPrev, notMoment>>

(* lines 1657-1670: one pass of the loop.  Where m3 = m5*m5/m7 in exact    *)
(* arithmetic, the REAL8 difference is a rounding residue that is          *)
(* negative, zero or positive                                              *)
MomentBin ==
    /\ mpc = "loop"
    /\ mk < MomentLength
    /\ mPrev' = mSum
    /\ IF mPsd[mk + 1] # 0
       THEN /\ mSum' = Accumulate(mSum, mk, mPsd[mk + 1])
            /\ \E residue \in {-1, 0, 1} :
                  LET sg == IF RadicandSign(mSum') = 0 THEN residue
                            ELSE RadicandSign(mSum')
                  IN  mA' = [mA EXCEPT ![mk] =
                                [a11 |-> A11(mSum'),
                                 a22 |-> A22(mSum', sg),
                                 a21 |-> A21(mSum', A22(mSum', sg))]]
       ELSE UNCHANGED <<mSum, mA>>
    /\ mk' = mk + 1
    /\ UNCHANGED <<mpc, mPsd, mKMin, mOOB, notMoment>>

(* line 1657: k = kMax *)
MomentReturn ==
    /\ mpc = "loop"
    /\ mk >= MomentLength
    /\ mpc' = "done"
    /\ UNCHANGED <<mPsd, mKMin, mk, mSum, mPrev, mA, mOOB, notMoment>>

MomentNext == MomentSkipBelow \/ MomentBin \/ MomentReturn

SpecMoment == MomentInit /\ [][MomentNext]_vars

NaNOrInf(v) == v.t \in {"nan", "inf", "neginf"}

(* C9: a bin of zero noise in [kMin, kMax] is skipped, nothing is added to *)
(* m3, m5, m7 there, and no NaN or Inf appears in a11, a21 or a22 at that  *)
(* bin or at any other bin.                                                *)
C9_ZeroBinSkippedNoNaNInf ==
    (\E j \in mKMin..MomentLength : mPsd[j + 1] = 0) =>
        /\ (mpc = "loop" /\ mk > mKMin /\ mPsd[mk] = 0) => mSum = mPrev
        /\ \A k \in DOMAIN mA :
              /\ ~NaNOrInf(mA[k].a11)
              /\ ~NaNOrInf(mA[k].a21)
              /\ ~NaNOrInf(mA[k].a22)

(* the cumulative sum m7 up to and including bin k *)
RECURSIVE CumulativeM7(_)
CumulativeM7(k) ==
    IF k < mKMin THEN 0
    ELSE CumulativeM7(k - 1)
         + (IF mPsd[k + 1] = 0 THEN 0
            ELSE Pow7(FM13(k)) * (2 \div mPsd[k + 1]))

(* a22*a11 > 0 *)
ProductPositive(a22, a11) ==
    a11.t = "invsqrt" /\ a22.t \in {"invsqrt", "inf"}

(* C10: after LALCreateMomentVector, at every bin k from kMin to the last  *)
(* one, a11[k] = 1/sqrt(m7[k]) with the cumulative m7[k], and              *)
(* a22[k]*a11[k] > 0, the cutoff bin and the bins of zero noise included.  *)
C10_MomentInvariantAtEveryBin ==
    mpc = "done" =>
        \A k \in mKMin..MomentLength - 1 :
            /\ mA[k].a11 = [t |-> "invsqrt", m7 |-> CumulativeM7(k)]
            /\ ProductPositive(mA[k].a22, mA[k].a11)

(* C11: when kMin exceeds the Nyquist bin N/2 the function fails with a    *)
(* report of the invalid configuration and writes no element of a11, a21,  *)
(* a22 outside their length N/2.                                           *)
C11_CutoffAboveNyquistFails ==
    mKMin > MomentLength =>
        /\ mOOB = {}
        /\ mpc \in {"skip", "failed"}

-----------------------------------------------------------------------------
(* LALCreateVectorFreqPower on arbitrary arguments (specification          *)
(* SpecPower).  A REAL4 of the vector is kept as a record: 0., the result  *)
(* of pow(f, power) as the pair of its two arguments, or what an           *)
(* uninitialised buffer holds.  f = i*df with df = tSampling/n/2 is the    *)
(* reduced fraction i*tSampling/(2n); power = a/b is a reduced fraction,   *)
(* or +Inf, -Inf, NaN for b = 0.  The function is called twice with the    *)
(* same arguments, the second time on a buffer with any content.           *)

MaxPowerLen == 3

FloatZero == [k |-> "zero"]

Garbage == [k |-> "garbage"]

(* line 1710 and 1716: f = i * (tSampling/n/2) *)
Frequency(i, in) ==
    LET g == Gcd(i * in.tSampling, 2 * in.n)
    IN  [num |-> (i * in.tSampling) \div g, den |-> (2 * in.n) \div g]

(* line 1708: (REAL8)a / (REAL8)b *)
Power(in) ==
    IF in.b = 0
    THEN [num |-> Sgn(in.a), den |-> 0]
    ELSE LET g == Gcd(in.a, in.b)
         IN  [num |-> Sgn(in.b) * (in.a \div g), den |-> Abs(in.b) \div g]

(* line 1719: pow(f, power) *)
Pow(f, power) == [k |-> "pow", f |-> f, power |-> power]

PowerInputs ==
    {[n |-> n, tSampling |-> t, a |-> a, b |-> b] :
        n \in 1..MaxPowerLen, t \in {0, 2, 4},
        a \in {-7, -5, -2, -1, 0, 1}, b \in {-3, 0, 2, 3, 6}}

(* a buffer of n REAL4: from LALCalloc, or with any content *)
Buffers(n) == [1..n -> {FloatZero, Garbage}]

PowerInit ==
    /\ vpc = "call"
    /\ vIn \in PowerInputs
    /\ vector \in Buffers(vIn.n)
    /\ vOld = vector
    /\ vi = 0
    /\ vFirst = <<>>
    /\ KeepIdle /\ OrthIdle /\ WaveIdle /\ MainIdle /\ MomentIdle
    /\ ParamsDone /\ FilterIdle /\ ReduceIdle /\ CutoffIdle

(* a bug: element 0 is left as the buffer holds it *)
PowerBegin_NoZero ==
    /\ vpc = "call"
    /\ vi' = 1
    /\ vpc' = "loop"
    /\ UNCHANGED <<vIn, vector, vOld, vFirst, notPower>>

(* lines 1705-1713: vector->data[0] = 0. *)
PowerBegin ==
    /\ vpc = "call"
    /\ vector' = [vector EXCEPT ![1] = FloatZero]
    /\ vi' = 1
    /\ vpc' = "loop"
    /\ UNCHANGED <<vIn, vOld, vFirst, notPower>>

(* lines 1714-1720: one pass of the loop *)
PowerLoop ==
    /\ vpc = "loop"
    /\ vi < vIn.n
    /\ vector' = [vector EXCEPT ![vi + 1] = Pow(Frequency(vi, vIn), Power(vIn))]
    /\ vi' = vi + 1
    /\ UNCHANGED <<vpc, vIn, vOld, vFirst, notPower>>

(* line 1721 *)
PowerReturn ==
    /\ vpc = "loop"
    /\ vi >= vIn.n
    /\ vpc' = "returned"
    /\ UNCHANGED <<vIn, vector, vOld, vi, vFirst, notPower>>

(* the second call, with the same arguments *)
PowerCallAgain ==
    /\ vpc = "returned"
    /\ vFirst = <<>>
    /\ vFirst' = vector
    /\ vector' \in Buffers(vIn.n) \cup {vector}
    /\ vOld' = vector'
    /\ vi' = 0
    /\ vpc' = "call"
    /\ UNCHANGED <<vIn, notPower>>

PowerNext == PowerBegin \/ PowerLoop \/ PowerReturn \/ PowerCallAgain

SpecPower == PowerInit /\ [][PowerNext]_vars

(* C17: the vector LALCreateVectorFreqPower returns has element 0 equal to *)
(* 0 and element i > 0 equal to pow(i*df, a/b), whatever the buffer held   *)
(* before; a second call with the same arguments returns the same          *)
(* sequence; and a call changes nothing but the vector and its loop index. *)
C17_FreqPowerIsPure ==
    /\ [](vpc = "returned" =>
            /\ vector[1] = FloatZero
            /\ \A i \in 1..vIn.n - 1 :
                  vector[i + 1] = Pow(Frequency(i, vIn), Power(vIn))
            /\ vFirst # <<>> => vector = vFirst)
    /\ [][(vpc = "call" \/ vpc = "loop") =>
              UNCHANGED <<vIn, vOld, vFirst, notPower>>]_vars

(* the second call has returned; it began on a buffer that was not zero    *)
(* and differed from the first result                                      *)
C17_Witness ==
    /\ vpc = "returned"
    /\ vFirst # <<>>
    /\ vIn.n = 3 /\ vIn.tSampling > 0 /\ vIn.b # 0
    /\ \A j \in 1..3 : vOld[j] = Garbage

-----------------------------------------------------------------------------
(* LALCreateFilters and the correlations of LALWaveOverlapBCV, lines       *)
(* 1727-1780 and 1862-1885, on buffers with any content (specification     *)
(* SpecFilters).  The filters have N elements, 4 <= N <= MaxFilterLen, and *)
(* kMin is any bin below N/2.  LALInspiralWaveCorrelate is a library       *)
(* function: a correlation is recorded as the filter it was given.         *)

MaxFilterCalls == 2

(* a UINT4 as its two 16-bit halves *)
UInt4(x) == [hi |-> x \div 65536, lo |-> x % 65536]

(* u - 1 in unsigned 32-bit arithmetic: 0 - 1 is 4294967295 *)
UInt4Minus1(u) ==
    IF u.lo > 0 THEN [u EXCEPT !.lo = @ - 1]
    ELSE IF u.hi > 0 THEN [hi |-> u.hi - 1, lo |-> 65535]
    ELSE [hi |-> 65535, lo |-> 65535]

UInt4Less(u, v) == u.hi < v.hi \/ (u.hi = v.hi /\ u.lo < v.lo)

(* lines 1753-1757: the indices "for (i = 0; i < kMin-1; i++)" writes,     *)
(* followed up to n, the first index beyond the buffers                    *)
FirstLoopIndices(n, kMin) ==
    {i \in 0..n : UInt4Less(UInt4(i), UInt4Minus1(UInt4(kMin)))}

(* lines 1760-1779: data[i] and data[n-i] for kMin <= i < nby2 *)
SecondLoopIndices(n, kMin) ==
    UNION {{i, n - i} : i \in kMin..(n \div 2) - 1}

(* lines 1762-1775: the elements read of fm5_3, fm2_3, fm7_6 and fm1_2 *)
PowerIndices(n, kMin) == kMin..(n \div 2) - 1

(* the buffer F after LALCreateFilters, as far as the writes fall inside   *)
(* it: the first loop, then the second                                     *)
LALCreateFilters(F, amp, kMin) ==
    CreateFilter([j \in 1..Len(F) |->
                     IF j - 1 \in FirstLoopIndices(Len(F), kMin)
                     THEN 0 ELSE F[j]],
                 amp, kMin)

(* a buffer of n REAL4: from LALCalloc, or with some other content *)
OldBuffers(n) == {ZeroBuffer(n), [j \in 1..n |-> 7], [j \in 1..n |-> j]}

FilterInit ==
    /\ fpc = "LALCreateFilters"
    /\ \E n \in 4..MaxFilterLen :
          /\ FilterBCV1 \in OldBuffers(n)
          /\ FilterBCV2 \in OldBuffers(n)
          /\ fKMin \in 0..(n \div 2) - 1
    /\ fMom \in Moms
    /\ fOld1 = FilterBCV1
    /\ fOld2 = FilterBCV2
    /\ fAccess = {}
    /\ fPowerAccess = {}
    /\ fLog = <<>>
    /\ fCalls = 0
    /\ WaveLocalsIdle /\ correlation = <<>>
    /\ KeepIdle /\ OrthIdle /\ MainIdle /\ MomentIdle
    /\ ParamsDone /\ PowerIdle /\ ReduceIdle /\ CutoffIdle

(* the wave variables but the two filter buffers *)
filterFrame ==
    <<wpc, wMom, wFp23, wBegin, wEnd, wX, wi, wRun, wLast, wOut, wErr,
      wOther, correlation, notFilter>>

(* lines 1738-1780: the call of LALCreateFilters.  A write beyond the      *)
(* buffers is undefined: the process is killed, or the call returns        *)
FilterCreate ==
    /\ fpc = "LALCreateFilters"
    /\ fAccess' = FirstLoopIndices(Len(FilterBCV1), fKMin)
                      \cup SecondLoopIndices(Len(FilterBCV1), fKMin)
    /\ fPowerAccess' = PowerIndices(Len(FilterBCV1), fKMin)
    /\ FilterBCV1' = LALCreateFilters(FilterBCV1, Amplitude1(fMom), fKMin)
    /\ FilterBCV2' = LALCreateFilters(FilterBCV2, Amplitude2(fMom), fKMin)
    /\ fpc' \in IF fAccess' \subseteq 0..Len(FilterBCV1) - 1
                THEN {"x1"} ELSE {"x1", "fault"}
    /\ fCalls' = fCalls + 1
    /\ UNCHANGED <<fKMin, fMom, fOld1, fOld2, fLog, filterFrame>>

(* LALInspiralWaveCorrelate(&x, corrin) with corrin.signal2 = filter *)
Correlate(x, filter, next) ==
    /\ fLog' = Append(fLog, [out |-> x, signal2 |-> filter])
    /\ fpc' = next
    /\ UNCHANGED <<fKMin, fMom, fOld1, fOld2, fAccess, fPowerAccess, fCalls,
                   FilterBCV1, FilterBCV2, filterFrame>>

(* lines 1870-1871 *)
CorrelateX1 == fpc = "x1" /\ Correlate("x1", FilterBCV1, "orth1")

(* a bug: filter 1 is not orthogonalized *)
OrthogonalizeFilter1_Skip ==
    /\ fpc = "orth1"
    /\ fpc' = "x3"
    /\ UNCHANGED <<fKMin, fMom, fOld1, fOld2, fAccess, fPowerAccess, fLog,
                   fCalls, FilterBCV1, FilterBCV2, filterFrame>>

(* line 1873 *)
OrthogonalizeFilter1 ==
    /\ fpc = "orth1"
    /\ FilterBCV1' = LALGetOrthogonalFilterBCV2(FilterBCV1)
    /\ fpc' = "x3"
    /\ UNCHANGED <<fKMin, fMom, fOld1, fOld2, fAccess, fPowerAccess, fLog,
                   fCalls, FilterBCV2, filterFrame>>

(* lines 1874-1875 *)
CorrelateX3 == fpc = "x3" /\ Correlate("x3", FilterBCV1, "x2")

(* lines 1879-1880 *)
CorrelateX2 == fpc = "x2" /\ Correlate("x2", FilterBCV2, "orth2")

(* line 1882 *)
OrthogonalizeFilter2 ==
    /\ fpc = "orth2"
    /\ FilterBCV2' = LALGetOrthogonalFilterBCV2(FilterBCV2)
    /\ fpc' = "x4"
    /\ UNCHANGED <<fKMin, fMom, fOld1, fOld2, fAccess, fPowerAccess, fLog,
                   fCalls, FilterBCV1, filterFrame>>

(* lines 1883-1884 *)
CorrelateX4 == fpc = "x4" /\ Correlate("x4", FilterBCV2, "loop")

(* the next template: the buffers are as the last template left them, and  *)
(* the cutoff bin has other moment coefficients                            *)
FilterNextTemplate ==
    /\ fpc = "loop"
    /\ fCalls < MaxFilterCalls
    /\ fMom' \in Moms
    /\ fOld1' = FilterBCV1
    /\ fOld2' = FilterBCV2
    /\ fAccess' = {}
    /\ fPowerAccess' = {}
    /\ fLog' = <<>>
    /\ fpc' = "LALCreateFilters"
    /\ UNCHANGED <<fKMin, fCalls, FilterBCV1, FilterBCV2, filterFrame>>

FilterNext ==
    \/ FilterCreate \/ CorrelateX1 \/ OrthogonalizeFilter1 \/ CorrelateX3
    \/ CorrelateX2 \/ OrthogonalizeFilter2 \/ CorrelateX4
    \/ FilterNextTemplate

SpecFilters == FilterInit /\ [][FilterNext]_vars

(* the filters of the current template as LALCreateFilters builds them on  *)
(* buffers from LALCalloc                                                  *)
FreshFilter1 ==
    LALCreateFilters(ZeroBuffer(Len(FilterBCV1)), Amplitude1(fMom), fKMin)

FreshFilter2 ==
    LALCreateFilters(ZeroBuffer(Len(FilterBCV2)), Amplitude2(fMom), fKMin)

(* C21 as stated: LALCreateFilters assigns every element 0..N-1 of both    *)
(* filters, so that the pair after the call is the same whatever the       *)
(* buffers held before.                                                    *)
C21_EveryElementAssigned ==
    fpc = "x1" =>
        /\ 0..Len(FilterBCV1) - 1 \subseteq fAccess
        /\ FilterBCV1 = FreshFilter1
        /\ FilterBCV2 = FreshFilter2

(* the number of correlations computed when the call is at fpc *)
CorrelationsDone ==
    IF fpc = "x1" THEN 0
    ELSE IF fpc \in {"orth1", "x3"} THEN 1
    ELSE IF fpc = "x2" THEN 2
    ELSE IF fpc \in {"orth2", "x4"} THEN 3
    ELSE 4

(* the four correlations of the current template: the filters as           *)
(* LALCreateFilters built them on what the buffers held, and their         *)
(* orthogonal companions                                                   *)
ExpectedCorrelations ==
    LET raw1 == LALCreateFilters(fOld1, Amplitude1(fMom), fKMin)
        raw2 == LALCreateFilters(fOld2, Amplitude2(fMom), fKMin)
    IN  <<[out |-> "x1", signal2 |-> raw1],
          [out |-> "x3", signal2 |-> LALGetOrthogonalFilterBCV2(raw1)],
          [out |-> "x2", signal2 |-> raw2],
          [out |-> "x4", signal2 |-> LALGetOrthogonalFilterBCV2(raw2)]>>

(* C24: a template scan computes exactly four correlations, in the order   *)
(* x1 with the raw filter 1, x3 with its orthogonal companion, x2 with the *)
(* raw filter 2, x4 with its orthogonal companion; each filter is          *)
(* correlated raw before it is orthogonalized in place, and each           *)
(* correlation uses the filter built for the current template.             *)
C24_FourCorrelationsInOrder ==
    fpc \in {"x1", "orth1", "x3", "x2", "orth2", "x4", "loop"} =>
        /\ fLog = SubSeq(ExpectedCorrelations, 1, CorrelationsDone)
        /\ fpc = "loop" =>
              /\ FilterBCV1 = ExpectedCorrelations[2].signal2
              /\ FilterBCV2 = ExpectedCorrelations[4].signal2

(* the second template has been correlated; its filters differ from their  *)
(* companions and from what the first template left in the buffers         *)
C24_Witness ==
    /\ fpc = "loop"
    /\ fCalls = 2
    /\ fKMin >= 1
    /\ Len(fLog) = 4
    /\ fLog[1].signal2 # fLog[2].signal2
    /\ fLog[3].signal2 # fLog[4].signal2
    /\ fLog[1].signal2 # fOld1
    /\ fLog[3].signal2 # fOld2

(* C26 as stated: for every kMin with 0 <= kMin < N/2 LALCreateFilters     *)
(* accesses only the indices 0..N-1 of the two filter buffers and only the *)
(* indices 0..N/2-1 of the power vectors.                                  *)
C26_AccessInBounds ==
    fpc \in {"x1", "fault"} =>
        /\ fAccess \subseteq 0..Len(FilterBCV1) - 1
        /\ fPowerAccess \subseteq 0..(Len(FilterBCV1) \div 2) - 1

(* C22 as stated: the scan of a template and the trial loop leave the      *)
(* template bank as BECreateBank returned it, every field of every entry   *)
(* and the bank size.                                                      *)
C22_BankUnchanged ==
    pc # "idle" =>
        /\ list = bank
        /\ sizeBank = Len(bank)

-----------------------------------------------------------------------------
(* The best-match merge as a reduction (specification SpecReduce): the     *)
(* results of a bank of 1 .. MaxResults templates are merged one after the *)
(* other into the tracker, as main does, and block by block into local     *)
(* bests, which are then merged in bank order.  rCuts holds the numbers of *)
(* the templates that begin a block, the first one left out.               *)

MaxResults == 3

(* a template's result has SNRs of 0 or more *)
ResultRhos == {RhoZero, RhoInt(2)}

ResultLists ==
    UNION {{[i \in 1..n |-> KeepRec(r[i], ru[i], i - 1, i - 1)] :
               r \in [1..n -> ResultRhos], ru \in [1..n -> ResultRhos]} :
           n \in 1..MaxResults}

ReduceInit ==
    /\ rpc = "scan"
    /\ rList \in ResultLists
    /\ rCuts \in SUBSET (1..Len(rList) - 1)
    /\ ri = 0
    /\ rBest = BEInitOverlapOutputIn
    /\ rLocal = <<>>
    /\ rMerged = BEInitOverlapOutputIn
    /\ KeepIdle /\ OrthIdle /\ WaveIdle /\ MainIdle /\ MomentIdle
    /\ ParamsDone /\ PowerIdle /\ FilterIdle /\ CutoffIdle

(* the template ri: merged into the tracker (lines 234-372), and into the  *)
(* local best of its block, which starts from BEInitOverlapOutputIn        *)
ReduceScan ==
    /\ rpc = "scan"
    /\ rBest' = KeepHighestValues(rList[ri + 1], rBest)
    /\ rLocal' =
           IF ri = 0 \/ ri \in rCuts
           THEN Append(rLocal,
                       KeepHighestValues(rList[ri + 1], BEInitOverlapOutputIn))
           ELSE [rLocal EXCEPT ![Len(rLocal)] =
                    KeepHighestValues(rList[ri + 1], @)]
    /\ IF ri + 1 < Len(rList)
       THEN ri' = ri + 1 /\ rpc' = "scan"
       ELSE ri' = 0 /\ rpc' = "merge"
    /\ UNCHANGED <<rList, rCuts, rMerged, notReduce>>

(* a bug: the local bests are merged last block first *)
ReduceMerge_Backwards ==
    /\ rpc = "merge"
    /\ rMerged' = KeepHighestValues(rLocal[Len(rLocal) - ri], rMerged)
    /\ IF ri + 1 < Len(rLocal)
       THEN ri' = ri + 1 /\ rpc' = "merge"
       ELSE ri' = 0 /\ rpc' = "done"
    /\ UNCHANGED <<rList, rCuts, rBest, rLocal, notReduce>>

(* the local best of block ri is merged with KeepHighestValues *)
ReduceMerge ==
    /\ rpc = "merge"
    /\ rMerged' = KeepHighestValues(rLocal[ri + 1], rMerged)
    /\ IF ri + 1 < Len(rLocal)
       THEN ri' = ri + 1 /\ rpc' = "merge"
       ELSE ri' = 0 /\ rpc' = "done"
    /\ UNCHANGED <<rList, rCuts, rBest, rLocal, notReduce>>

ReduceNext == ReduceScan \/ ReduceMerge

SpecReduce == ReduceInit /\ [][ReduceNext]_vars

(* C23: folding each contiguous block of the bank with KeepHighestValues   *)
(* from the sentinel and merging the local bests in bank order gives the   *)
(* same best record, in every field of both sub-records, as the sequential *)
(* scan of the whole bank.                                                 *)
C23_MergeIsReduction ==
    rpc = "done" => rMerged = rBest

(* three templates in two or three blocks, the constrained maximum         *)
(* attained by the first and the last template, the unconstrained one by   *)
(* the second template only                                                *)
C23_Witness ==
    /\ rpc = "done"
    /\ Len(rList) = 3
    /\ rCuts # {}
    /\ rList[1].rhoMax = RhoInt(2) /\ rList[3].rhoMax = RhoInt(2)
    /\ rList[2].rhoMaxU = RhoInt(2)
    /\ rList[1].rhoMaxU = RhoZero /\ rList[3].rhoMaxU = RhoZero
    /\ rMerged.templateNumber = 0
    /\ rMerged.templateNumberU = 1

-----------------------------------------------------------------------------
(* LALWaveOverlapBCV with any overlapin->nBegin and ->nEnd such that       *)
(* nBegin < N - nEnd (specification SpecRange); main passes 0 and 0.       *)

RangeSamples == {s \in Samples : s.x2 <= 0 /\ s.x1 # 1}

RangeInit ==
    /\ wpc = "correlate"
    /\ wMom \in Moms
    /\ wFp23 \in Fp23s
    /\ wX \in UNION {[1..n -> RangeSamples] : n \in 1..MaxSamples}
    /\ wBegin \in 0..Len(wX) - 1
    /\ wEnd \in 0..Len(wX) - 1 - wBegin
    /\ wi = 0
    /\ wRun = WaveRunInit
    /\ wLast = WaveLastInit
    /\ wOut = [BEInitOverlapOutputIn EXCEPT !.rhoMax = RhoSentinel]
    /\ wErr = <<>>
    /\ wOther = DefaultOtherIn
    /\ correlation = [i \in 1..Len(wX) |-> RhoZero]
    /\ FilterBCV1 =
           CreateFilter(ZeroBuffer(SignalLength), Amplitude1(wMom), KMin)
    /\ FilterBCV2 =
           CreateFilter(ZeroBuffer(SignalLength), Amplitude2(wMom), KMin)
    /\ KeepIdle /\ OrthIdle /\ MainIdle /\ MomentIdle /\ ConfigDone

SpecRange == RangeInit /\ [][WaveNext]_vars

(* the samples of the valid range, as indices of wX *)
ValidRange == wBegin + 1..Len(wX) - wEnd

(* C25 as stated: only the samples nBegin .. N-nEnd-1 contribute to the    *)
(* running maxima, and the bins rhoBin and rhoBinU that are reported lie   *)
(* in that range, also when no sample raised a maximum.                    *)
C25_BinsInValidRange ==
    wpc = "done" =>
        /\ \A i \in ValidRange : RhoLE(RhoC(i), wOut.rhoMax)
        /\ \A i \in ValidRange \cap AlphaFValid : RhoLE(RhoU(i), wOut.rhoMaxU)
        /\ RhoGT(wOut.rhoMax, RhoZero) =>
               RhoCmp(RhoC(wOut.rhoBin + 1), wOut.rhoMax) = 0
        /\ RhoGT(wOut.rhoMaxU, RhoZero) =>
               RhoCmp(RhoU(wOut.rhoBinU + 1), wOut.rhoMaxU) = 0
        /\ wOut.rhoBin + 1 \in ValidRange
        /\ wOut.rhoBinU + 1 \in ValidRange

(* C25 as amended: only the samples nBegin .. N-nEnd-1 contribute; a       *)
(* reported bin lies in that range when its maximum is above 0, and is 0   *)
(* when no sample raised its maximum, which is in the range only for       *)
(* nBegin = 0.                                                             *)
C25_BinsInValidRangeOrZero ==
    wpc = "done" =>
        /\ \A i \in ValidRange : RhoLE(RhoC(i), wOut.rhoMax)
        /\ \A i \in ValidRange \cap AlphaFValid : RhoLE(RhoU(i), wOut.rhoMaxU)
        /\ IF RhoGT(wOut.rhoMax, RhoZero)
           THEN /\ wOut.rhoBin + 1 \in ValidRange
                /\ RhoCmp(RhoC(wOut.rhoBin + 1), wOut.rhoMax) = 0
           ELSE wOut.rhoMax = RhoZero /\ wOut.rhoBin = 0
        /\ IF RhoGT(wOut.rhoMaxU, RhoZero)
           THEN /\ wOut.rhoBinU + 1 \in ValidRange \cap AlphaFValid
                /\ RhoCmp(RhoU(wOut.rhoBinU + 1), wOut.rhoMaxU) = 0
           ELSE wOut.rhoMaxU = RhoZero /\ wOut.rhoBinU = 0

(* nBegin = 1: the sample before the range has a higher constrained SNR    *)
(* than the one reported, which is in the range; no sample of the range    *)
(* has alphaF <= 1, and the unconstrained bin reported is 0                *)
C25_Witness ==
    /\ wpc = "done"
    /\ wBegin = 1
    /\ RhoGT(wOut.rhoMax, RhoZero)
    /\ RhoGT(RhoC(1), wOut.rhoMax)
    /\ wOut.rhoBin = 1
    /\ wOut.rhoMaxU = RhoZero
    /\ wOut.rhoBinU = 0

-----------------------------------------------------------------------------
(* The two maxima of a result (specification SpecWave).                    *)

(* C27 as stated: in every result of LALWaveOverlapBCV the unconstrained   *)
(* maximum is at least the constrained maximum, rhoMaxU >= rhoMax.         *)
C27_UnconstrainedMaxAtLeastConstrained ==
    wpc = "done" => RhoLE(wOut.rhoMax, wOut.rhoMaxU)

(* C27 as amended: rhoMaxU >= rhoMax when rhoMax is 0 or the sample rhoBin *)
(* that attains rhoMax passes the alphaF <= 1 test of the unconstrained    *)
(* branch; in every result rhoMax is at most the unconstrained SNR of the  *)
(* sample rhoBin.                                                          *)
C27_AtLeastWhenAlphaFValid ==
    wpc = "done" =>
        /\ (wOut.rhoMax = RhoZero \/ wOut.rhoBin + 1 \in AlphaFValid) =>
               RhoLE(wOut.rhoMax, wOut.rhoMaxU)
        /\ RhoGT(wOut.rhoMax, RhoZero) =>
               RhoLE(wOut.rhoMax, RhoU(wOut.rhoBin + 1))

(* two samples: the constrained maximum comes from a sample with           *)
(* alphaF <= 1 whose unconstrained SNR is higher, and the other sample     *)
(* fails the test                                                          *)
C27_Witness ==
    /\ wpc = "done"
    /\ Len(wX) = 2
    /\ RhoGT(wOut.rhoMax, RhoZero)
    /\ wOut.rhoBin + 1 \in AlphaFValid
    /\ RhoGT(wOut.rhoMaxU, wOut.rhoMax)
    /\ AlphaFValid # {1, 2}

-----------------------------------------------------------------------------
(* The scan of the bank in the first trial, with more signals than the     *)
(* driver has (specification SpecScan): among the correlations are those   *)
(* of a signal that gives SNR 0 at every sample, and those of a signal     *)
(* whose samples all fail the alphaF <= 1 test for some templates.         *)

ScanCorrelations ==
    Correlations
    \cup
    {<<[x1 |-> 0, x2 |-> 0, x3 |-> 0, x4 |-> 0, nz |-> FALSE],
       [x1 |-> 0, x2 |-> 0, x3 |-> 0, x4 |-> 0, nz |-> FALSE]>>,
     <<[x1 |-> 0, x2 |-> 1, x3 |-> 1, x4 |-> -1, nz |-> FALSE],
       [x1 |-> 0, x2 |-> 1, x3 |-> 1, x4 |-> -1, nz |-> FALSE]>>,
     <<[x1 |-> 2, x2 |-> 0, x3 |-> 0, x4 |-> 0, nz |-> FALSE],
       [x1 |-> 1, x2 |-> 0, x3 |-> 0, x4 |-> 0, nz |-> FALSE]>>}

ScanTemplateBegin == TemplateBeginWith(ScanCorrelations)

ScanNext ==
    \/ BECreateBank \/ CreateMoments \/ TrialBegin
    \/ ScanTemplateBegin
    \/ WaveCorrelate \/ WaveStep \/ WaveMustNotEnter \/ WaveReturn
    \/ TemplateEnd

SpecScan == Init /\ [][ScanNext]_vars

(* C28: within a trial the tracker holds the sentinel, rhoMax = -1 and     *)
(* rhoMaxU = -1, if and only if no template has been merged yet; every     *)
(* result LALWaveOverlapBCV returns has rhoMax >= 0 and rhoMaxU >= 0, so   *)
(* the first template merged replaces both sentinel sub-records.           *)
C28_SentinelIffNothingMerged ==
    /\ wpc = "done" =>
           /\ RhoLE(RhoZero, wOut.rhoMax)
           /\ RhoLE(RhoZero, wOut.rhoMaxU)
    /\ pc \in {"template", "LALInspiralOverlapBCV"} =>
           /\ scanned = <<>> <=>
                  OverlapOutputBestTemplate.rhoMax = RhoSentinel
           /\ scanned = <<>> <=>
                  OverlapOutputBestTemplate.rhoMaxU = RhoSentinel
           /\ scanned = <<>> =>
                  OverlapOutputBestTemplate = BEInitOverlapOutputIn
           /\ scanned # <<>> =>
                  /\ Constrained(OverlapOutputBestTemplate)
                         # Constrained(BEInitOverlapOutputIn)
                  /\ Unconstrained(OverlapOutputBestTemplate)
                         # Unconstrained(BEInitOverlapOutputIn)

(* the first template of a trial has been merged; none of its samples      *)
(* passed the alphaF <= 1 test, and its rhoMaxU = 0 has replaced the       *)
(* sentinel                                                                *)
C28_Witness ==
    /\ pc = "template"
    /\ Len(scanned) = 1
    /\ scanned[1].rhoMaxU = RhoZero
    /\ RhoGT(scanned[1].rhoMax, RhoZero)
    /\ OverlapOutputBestTemplate.rhoMaxU = RhoZero
    /\ OverlapOutputBestTemplate.templateNumberU = 0
    /\ Unconstrained(OverlapOutputBestTemplate) = Unconstrained(scanned[1])

(* the tracker's constrained and unconstrained SNR are the greatest of the *)
(* results merged so far, and its template indices the lowest that attain  *)
(* them                                                                    *)
TrackerIsMaximum ==
    LET best == OverlapOutputBestTemplate
    IN  /\ \A j \in 1..Len(scanned) :
              /\ RhoLE(scanned[j].rhoMax, best.rhoMax)
              /\ RhoLE(scanned[j].rhoMaxU, best.rhoMaxU)
        /\ best.templateNumber < Len(scanned)
        /\ best.templateNumberU < Len(scanned)
        /\ scanned[best.templateNumber + 1].rhoMax = best.rhoMax
        /\ scanned[best.templateNumberU + 1].rhoMaxU = best.rhoMaxU
        /\ \A j \in 1..best.templateNumber :
              RhoGT(best.rhoMax, scanned[j].rhoMax)
        /\ \A j \in 1..best.templateNumberU :
              RhoGT(best.rhoMaxU, scanned[j].rhoMaxU)

(* C29: after the scan of a non-empty bank in a trial the tracker's rhoMax *)
(* is the maximum of rhoMax over the scanned templates and templateNumber  *)
(* the lowest index attaining it, the same for rhoMaxU and                 *)
(* templateNumberU; during the scan the tracker's rhoMax and rhoMaxU never *)
(* decrease.                                                               *)
C29_TrackerIsMaximumOfScan ==
    /\ []((pc = "template" /\ scanned # <<>>) => TrackerIsMaximum)
    /\ [][(pc \in {"template", "LALInspiralOverlapBCV"}
             /\ pc' \in {"template", "LALInspiralOverlapBCV"}) =>
          /\ RhoLE(OverlapOutputBestTemplate.rhoMax,
                   OverlapOutputBestTemplate'.rhoMax)
          /\ RhoLE(OverlapOutputBestTemplate.rhoMaxU,
                   OverlapOutputBestTemplate'.rhoMaxU)]_vars

(* a bank of two templates has been scanned: both attain the constrained   *)
(* maximum and the tracker names the first; the unconstrained maximum is   *)
(* that of the second template alone                                       *)
C29_Witness ==
    /\ pc = "template"
    /\ currentTemplate = sizeBank
    /\ Len(scanned) = 2
    /\ scanned[1].rhoMax = scanned[2].rhoMax
    /\ RhoGT(scanned[2].rhoMaxU, scanned[1].rhoMaxU)
    /\ OverlapOutputBestTemplate.templateNumber = 0
    /\ OverlapOutputBestTemplate.templateNumberU = 1

-----------------------------------------------------------------------------
(* The cutoff bin of a template (specification SpecCutoff), lines          *)
(* 4495-4529 and 1915-1920.  Frequencies are whole numbers of a unit of    *)
(* which 4 make 1 Hz.  A REAL8 holds any of them; a REAL4 has fewer digits *)
(* and holds the multiples of Real4Grid only.  The sampling rate is 16 Hz, *)
(* the signal has 8 or 11 samples, fLower is 2 Hz.  A bank entry has        *)
(* fLower <= fFinal <= fUpper = tSampling/2 - 1 (lines 1013-1019); the     *)
(* fFinal of a BCV signal is drawn until it is neither above tSampling/2   *)
(* nor below fLower (line 3189).                                           *)

Hz == 4

Real4Grid == 4

CutoffSampling == 16 * Hz

CutoffLengths == {8, 11}

(* (REAL4)x: the nearest multiple of Real4Grid, a tie to the even one *)
Real4(x) ==
    LET q == x \div Real4Grid
        r == x % Real4Grid
    IN  IF 2 * r < Real4Grid THEN Real4Grid * q
        ELSE IF 2 * r > Real4Grid THEN Real4Grid * (q + 1)
        ELSE IF q % 2 = 0 THEN Real4Grid * q ELSE Real4Grid * (q + 1)

BankFinals == 2 * Hz..CutoffSampling \div 2 - Hz

SignalFinals == 2 * Hz..CutoffSampling \div 2

CutoffInit ==
    /\ bpc = "LALInspiralOverlapBCV"
    /\ bIn \in [n : CutoffLengths, tSampling : {CutoffSampling},
                fFinal : BankFinals, signalfFinal : SignalFinals,
                signal : {"EOB", "BCV"}]
    /\ bKMax = 0
    /\ bK = 0
    /\ bOOB = {}
    /\ KeepIdle /\ OrthIdle /\ WaveIdle /\ MainIdle /\ MomentIdle
    /\ ParamsDone /\ PowerIdle /\ FilterIdle /\ ReduceIdle

(* lines 4500-4519: n/2 is a division of integers, fendBCV is a REAL4;     *)
(* kMax = floor(fendBCV / df) with df = tSampling / (n/2) / 2              *)
KMaxOfOverlapBCV(in) ==
    LET fendBCV ==
            Real4(IF in.signal = "BCV" THEN in.signalfFinal ELSE in.fFinal)
    IN  (fendBCV * 2 * (in.n \div 2)) \div in.tSampling

(* lines 1915-1916: k = floor(fFinal / df) with df = tSampling / (n/2.) / 2 *)
(* and the REAL8 fFinal of the bank entry                                  *)
KOfWaveOverlapBCV(in) == (in.fFinal * in.n) \div in.tSampling

(* lines 4500-4529 and 1746-1750: LALInspiralOverlapBCV up to the read of  *)
(* a11, a21, a22 at kMax in LALCreateFilters; the vectors have n/2         *)
(* elements (lines 1631-1633), a read beyond them is undefined             *)
CutoffOverlapBCV ==
    /\ bpc = "LALInspiralOverlapBCV"
    /\ bIn' = IF bIn.signal = "BCV"
              THEN [bIn EXCEPT !.fFinal = bIn.signalfFinal]
              ELSE bIn
    /\ bKMax' = KMaxOfOverlapBCV(bIn)
    /\ bOOB' = {bKMax'} \ (0..(bIn.n \div 2) - 1)
    /\ bpc' \in IF bOOB' = {} THEN {"LALWaveOverlapBCV"}
                ELSE {"LALWaveOverlapBCV", "fault"}
    /\ UNCHANGED <<bK, notCutoff>>

(* lines 1915-1920: LALWaveOverlapBCV reads a11, a21, a22 at k *)
CutoffWaveOverlapBCV ==
    /\ bpc = "LALWaveOverlapBCV"
    /\ bK' = KOfWaveOverlapBCV(bIn)
    /\ bOOB' = bOOB \cup ({bK'} \ (0..(bIn.n \div 2) - 1))
    /\ bpc' \in IF {bK'} \subseteq 0..(bIn.n \div 2) - 1 THEN {"returned"}
                ELSE {"returned", "fault"}
    /\ UNCHANGED <<bIn, bKMax, notCutoff>>

(* the next template of the bank *)
CutoffNextTemplate ==
    /\ bpc = "returned"
    /\ \E f \in BankFinals : bIn' = [bIn EXCEPT !.fFinal = f]
    /\ bKMax' = 0
    /\ bK' = 0
    /\ bOOB' = {}
    /\ bpc' = "LALInspiralOverlapBCV"
    /\ UNCHANGED notCutoff

CutoffNext == CutoffOverlapBCV \/ CutoffWaveOverlapBCV \/ CutoffNextTemplate

SpecCutoff == CutoffInit /\ [][CutoffNext]_vars

(* C30 as stated: for every template the bin kMax = floor(fFinal/df) at    *)
(* which a11, a21, a22 are read is a valid index, 0 <= kMax < N/2, and the *)
(* bin LALWaveOverlapBCV uses for thetab is the bin LALCreateFilters used  *)
(* for the filters.                                                        *)
C30_CutoffBinValidAndSame ==
    /\ bpc \in {"LALWaveOverlapBCV", "returned", "fault"} =>
           bKMax \in 0..(bIn.n \div 2) - 1
    /\ bpc = "returned" =>
           /\ bK \in 0..(bIn.n \div 2) - 1
           /\ bK = bKMax

=============================================================================
